---- MODULE Spec2Model ----
(***************************************************************************)
(* Model of the rule-based job-notification extractor of govt-job-board    *)
(* (src/server/storage.ts, parseJobNotification and its helpers).          *)
(*                                                                         *)
(* JavaScript strings are TLA+ strings handled character by character      *)
(* (Len, SubSeq and \o), so that toLowerCase, includes, indexOf, slice,    *)
(* trim, split and the regular expressions are computed as the code        *)
(* computes them.                                                          *)
(***************************************************************************)
EXTENDS Integers, Sequences, FiniteSets, TLC

VARIABLES
    rawText,    \* the text handed to the operation under study
    items,      \* the list handed to the operation when it takes a list
    output,     \* what the operation returned (NoOutput before the call)
    pc,         \* "idle" before the call, "done" after it
    session,        \* req.session of each client (express-session)
    hashedPassword, \* the module variable of the routes, <<>> until it is set
    posts,          \* the rows of the posts table
    nextId,         \* the next value of the table's serial id
    pending,        \* the request each client has in progress, between two awaits
    request,        \* the request received last: its route and client, and the body of a
                    \* login or parse request
    response,       \* the response sent to it
    invoked         \* <<text>> when the handler called parseJobNotification(text)

\* the variables of the HTTP routes
web == <<session, hashedPassword, posts, nextId, pending, request, response>>

vars == <<rawText, items, output, pc, session, hashedPassword, posts, nextId, pending, request,
          response, invoked>>

NoOutput == [kind |-> "none"]

(***************************************************************************)
(* Bounds of the checked input space.                                      *)
(***************************************************************************)
MaxTypeFrags == 2
MaxParseFrags == 2
MaxLinkFrags == 2
MaxEntries == 3

(***************************************************************************)
(* Characters.                                                             *)
(***************************************************************************)
UpperChars == <<"A","B","C","D","E","F","G","H","I","J","K","L","M",
                "N","O","P","Q","R","S","T","U","V","W","X","Y","Z">>
LowerChars == <<"a","b","c","d","e","f","g","h","i","j","k","l","m",
                "n","o","p","q","r","s","t","u","v","w","x","y","z">>
Upper == {UpperChars[i] : i \in 1..26}
Lower == {LowerChars[i] : i \in 1..26}
Digit == {"0","1","2","3","4","5","6","7","8","9"}
Space == {" ", "\n", "\t", "\r"}

\* String.prototype.toLowerCase on one character
lowerOf == [c \in Upper |-> LowerChars[CHOOSE i \in 1..26 : UpperChars[i] = c]]

charLower(c) == IF c \in Upper THEN lowerOf[c] ELSE c

At(t, i) == SubSeq(t, i, i)

(***************************************************************************)
(* String.prototype methods.                                               *)
(***************************************************************************)
\* (the scans below halve their range instead of stepping through it, which
\* keeps the evaluation depth logarithmic in the length of the text)
RECURSIVE lowerRange(_, _, _)
lowerRange(t, lo, hi) ==
    IF lo > hi THEN ""
    ELSE IF lo = hi THEN charLower(At(t, lo))
    ELSE LET mid == (lo + hi) \div 2
         IN lowerRange(t, lo, mid) \o lowerRange(t, mid + 1, hi)

toLowerCase(t) == lowerRange(t, 1, Len(t))

\* s occurs in t at position i (1-based)
occursAt(t, s, i) == i >= 1 /\ i + Len(s) - 1 <= Len(t) /\ SubSeq(t, i, i + Len(s) - 1) = s

\* the first position in lo..hi where s occurs in t, or 0
RECURSIVE indexRange(_, _, _, _)
indexRange(t, s, lo, hi) ==
    IF lo > hi THEN 0
    ELSE IF lo = hi THEN (IF occursAt(t, s, lo) THEN lo ELSE 0)
    ELSE LET mid == (lo + hi) \div 2
             l == indexRange(t, s, lo, mid)
         IN IF l # 0 THEN l ELSE indexRange(t, s, mid + 1, hi)

\* String.prototype.indexOf, 1-based; 0 stands for JavaScript's -1
indexOf(t, s) == indexRange(t, s, 1, Len(t) - Len(s) + 1)

includes(t, s) == indexOf(t, s) # 0

(***************************************************************************)
(* Regular expressions.  A pattern is a tree of nodes:                     *)
(*   lit      a literal string (ci: compared ignoring case, the i flag)    *)
(*   set/not  one character in / not in a class                            *)
(*   cat/alt  sequence / ordered alternatives                              *)
(*   rep      greedy repetition lo..hi (hi = -1: unbounded)                *)
(*   cap      capturing group n;  bol  the ^ anchor                        *)
(* A matcher state is [e, g]: the next position to read and the captures,  *)
(* each <<>> (undefined) or <<s>>.  ways(n, c, st) lists the states in     *)
(* which node n can end when started in st, in the order JavaScript's      *)
(* backtracking tries them (greedy repetitions longest first, alternatives *)
(* left to right); a state that an earlier way already reached is dropped, *)
(* since what follows it would be tried again to the same effect.  The     *)
(* first way of the whole pattern is therefore the match JavaScript finds. *)
(***************************************************************************)
Word == Upper \cup Lower \cup Digit \cup {"_"}
Alpha == Upper \cup Lower

In(set) == [k |-> "set", s |-> set]
NotIn(set) == [k |-> "not", s |-> set]
Cat(a) == [k |-> "cat", a |-> a]
Alt(a) == [k |-> "alt", a |-> a]
Rep(r, lo, hi) == [k |-> "rep", r |-> r, lo |-> lo, hi |-> hi]
Opt(r) == Rep(r, 0, 1)
Star(r) == Rep(r, 0, -1)
Plus(r) == Rep(r, 1, -1)
Cap(n, r) == [k |-> "cap", n |-> n, r |-> r]
Bol == [k |-> "bol"]
\* a literal, case-sensitive and under the i flag
Lit(str) == [k |-> "lit", s |-> str, ci |-> FALSE]
LitI(str) == [k |-> "lit", s |-> toLowerCase(str), ci |-> TRUE]
\* \s*, \s+, \d+ and \w*
Ws == Star(In(Space))
Ws1 == Plus(In(Space))
Digits1 == Plus(In(Digit))
Words0 == Star(In(Word))

NoMatch == [ok |-> FALSE]

charOk(n, ch) == IF n.k = "set" THEN ch \in n.s ELSE ch \notin n.s

\* the first position in lo..hi whose character is outside the class, or hi + 1
RECURSIVE firstBad(_, _, _, _)
firstBad(n, t, lo, hi) ==
    IF lo > hi THEN lo
    ELSE IF lo = hi THEN (IF charOk(n, At(t, lo)) THEN lo + 1 ELSE lo)
    ELSE LET mid == (lo + hi) \div 2
             l == firstBad(n, t, lo, mid)
         IN IF l <= mid THEN l ELSE firstBad(n, t, mid + 1, hi)

\* how many characters from position i on are in the class, at most hi of them
runLen(n, t, i, hi) ==
    LET limit == IF hi < 0 \/ i + hi - 1 > Len(t) THEN Len(t) ELSE i + hi - 1
    IN firstBad(n, t, i, limit) - i

\* a then the states of b that a does not hold already
merge(a, b) ==
    IF Len(a) = 0 THEN b
    ELSE IF Len(b) = 0 THEN a
    ELSE LET seen == {a[j] : j \in 1..Len(a)}
             fresh(st) == st \notin seen
         IN a \o SelectSeq(b, fresh)

RECURSIVE ways(_, _, _)
RECURSIVE eachRange(_, _, _, _, _)
RECURSIVE catRange(_, _, _, _, _)
RECURSIVE altRange(_, _, _, _, _)

\* c is the text being matched: c.t as given, c.tl in lower case
ways(n, c, st) ==
    CASE n.k = "lit" ->
            IF st.e + Len(n.s) - 1 <= Len(c.t)
               /\ SubSeq(IF n.ci THEN c.tl ELSE c.t, st.e, st.e + Len(n.s) - 1) = n.s
            THEN <<[st EXCEPT !.e = @ + Len(n.s)]>>
            ELSE <<>>
      [] n.k \in {"set", "not"} ->
            IF st.e <= Len(c.t) /\ charOk(n, At(c.t, st.e))
            THEN <<[st EXCEPT !.e = @ + 1]>>
            ELSE <<>>
      [] n.k = "cat" -> catRange(n.a, 1, Len(n.a), c, <<st>>)
      [] n.k = "alt" -> altRange(n.a, 1, Len(n.a), c, st)
      [] n.k = "rep" ->
            IF n.r.k \in {"set", "not"}
            THEN LET run == runLen(n.r, c.t, st.e, n.hi)
                 IN [j \in 1..(run - n.lo + 1) |-> [st EXCEPT !.e = @ + run - (j - 1)]]
            ELSE IF n.hi = 0 THEN <<st>>
            ELSE LET moved(s) == s.e > st.e
                     once == SelectSeq(ways(n.r, c, st), moved)
                     more == [n EXCEPT !.lo = IF n.lo > 0 THEN n.lo - 1 ELSE 0,
                                       !.hi = IF n.hi > 0 THEN n.hi - 1 ELSE n.hi]
                 IN merge(eachRange(more, c, once, 1, Len(once)),
                          IF n.lo <= 0 THEN <<st>> ELSE <<>>)
      [] n.k = "cap" ->
            LET inner == ways(n.r, c, st)
            IN [j \in 1..Len(inner) |->
                   [inner[j] EXCEPT !.g[n.n] = <<SubSeq(c.t, st.e, inner[j].e - 1)>>]]
      [] n.k = "bol" -> IF st.e = 1 THEN <<st>> ELSE <<>>

\* node n started in each of the states cur[lo..hi]
eachRange(n, c, cur, lo, hi) ==
    IF lo > hi THEN <<>>
    ELSE IF lo = hi THEN ways(n, c, cur[lo])
    ELSE LET mid == (lo + hi) \div 2
         IN merge(eachRange(n, c, cur, lo, mid), eachRange(n, c, cur, mid + 1, hi))

\* the nodes a[lo..hi] one after the other, started in the states cur
catRange(a, lo, hi, c, cur) ==
    IF Len(cur) = 0 \/ lo > hi THEN cur
    ELSE IF lo = hi THEN eachRange(a[lo], c, cur, 1, Len(cur))
    ELSE LET mid == (lo + hi) \div 2
         IN catRange(a, mid + 1, hi, c, catRange(a, lo, mid, c, cur))

\* the alternatives a[lo..hi] in their order
altRange(a, lo, hi, c, st) ==
    IF lo > hi THEN <<>>
    ELSE IF lo = hi THEN ways(a[lo], c, st)
    ELSE LET mid == (lo + hi) \div 2
         IN merge(altRange(a, lo, mid, c, st), altRange(a, mid + 1, hi, c, st))

\* a compiled pattern: its tree and its number of capturing groups
Re(tree, groups) == [tree |-> tree, groups |-> groups]

\* the match starting leftmost among the positions lo..hi
RECURSIVE searchRange(_, _, _, _)
searchRange(re, c, lo, hi) ==
    IF lo > hi THEN NoMatch
    ELSE IF lo = hi
    THEN LET w == ways(re.tree, c, [e |-> lo, g |-> [n \in 1..re.groups |-> <<>>]])
         IN IF Len(w) > 0
            THEN [ok |-> TRUE, index |-> lo - 1, e |-> w[1].e, g |-> w[1].g,
                  all |-> SubSeq(c.t, lo, w[1].e - 1)]
            ELSE NoMatch
    ELSE LET mid == (lo + hi) \div 2
             l == searchRange(re, c, lo, mid)
         IN IF l.ok THEN l ELSE searchRange(re, c, mid + 1, hi)

searchFrom(re, t, i) == searchRange(re, [t |-> t, tl |-> toLowerCase(t)], i, Len(t) + 1)

\* String.prototype.match with a pattern that has no g flag: the leftmost
\* match; index is 0-based as in JavaScript, all is match[0], g[n] is match[n]
match(t, re) == searchFrom(re, t, 1)

\* with the g flag: every match[0], left to right, each search resuming
\* where the last match ended
RECURSIVE matchAllFrom(_, _, _)
matchesAfter(re, t, r) ==
    IF ~r.ok THEN <<>>
    ELSE <<r.all>> \o matchAllFrom(re, t, IF r.e > r.index + 1 THEN r.e ELSE r.e + 1)

matchAllFrom(re, t, i) == matchesAfter(re, t, searchFrom(re, t, i))

matchAll(t, re) == matchAllFrom(re, t, 1)

\* a capture that is a non-empty string (JavaScript truthiness)
truthy(c) == c # <<>> /\ c[1] # ""

(***************************************************************************)
(* More String.prototype methods.                                          *)
(***************************************************************************)
minOf(a, b) == IF a < b THEN a ELSE b

\* String.prototype.slice(from, to) with 0-based, non-negative bounds
slice(t, from, to) == SubSeq(t, from + 1, minOf(to, Len(t)))

\* the last position in lo..hi whose character is not white space, or lo - 1
RECURSIVE lastNonSpace(_, _, _)
lastNonSpace(t, lo, hi) ==
    IF lo > hi THEN hi
    ELSE IF lo = hi THEN (IF At(t, lo) \in Space THEN lo - 1 ELSE lo)
    ELSE LET mid == (lo + hi) \div 2
             r == lastNonSpace(t, mid + 1, hi)
         IN IF r > mid THEN r ELSE lastNonSpace(t, lo, mid)

trim(t) ==
    LET from == firstBad(In(Space), t, 1, Len(t))
    IN SubSeq(t, from, lastNonSpace(t, from, Len(t)))

\* String.prototype.split(sep) with a one-character separator
RECURSIVE splitFrom(_, _, _)
splitFrom(t, sep, from) ==
    LET i == firstBad(NotIn({sep}), t, from, Len(t))
    IN IF i > Len(t) THEN <<SubSeq(t, from, Len(t))>>
       ELSE <<SubSeq(t, from, i - 1)>> \o splitFrom(t, sep, i + 1)

split(t, sep) == splitFrom(t, sep, 1)

\* String.prototype.replace(/[set]+/g, ''): every character of the set removed
RECURSIVE removeRange(_, _, _, _)
removeRange(t, set, lo, hi) ==
    IF lo > hi THEN ""
    ELSE IF lo = hi THEN (IF At(t, lo) \in set THEN "" ELSE At(t, lo))
    ELSE LET mid == (lo + hi) \div 2
         IN removeRange(t, set, lo, mid) \o removeRange(t, set, mid + 1, hi)

removeChars(t, set) == removeRange(t, set, 1, Len(t))

\* reading group n of a match that may be null, and what a method call on it does
group(m, n) == IF m.ok THEN m.g[n] ELSE <<>>
str(c) == IF c = <<>> THEN "" ELSE c[1]
\* match[n].method() raises a TypeError when match is null or match[n] undefined
derefThrows(m, n) == group(m, n) = <<>>

(***************************************************************************)
(* extractSection                                                          *)
(***************************************************************************)
SectionMarkerDefault == 500
SectionNoMarkerLen == 1000
SectionCap == 1500

\* /\n\s*[A-Z][A-Z\s]{5,}[:\n]/
nextSectionRe ==
    Re(Cat(<<Lit("\n"), Ws, In(Upper), Rep(In(Upper \cup Space), 5, -1), In({":", "\n"})>>), 0)

\* a variant that reads on to the cap when no marker follows
sectionEnd_capWhenNoMarker(startIdx, nextSectionMatch) ==
    IF nextSectionMatch.ok
    THEN startIdx + (IF nextSectionMatch.index # 0 THEN nextSectionMatch.index
                     ELSE SectionMarkerDefault)
    ELSE startIdx + SectionCap

\* the end of the section that starts at startIdx
sectionEnd(startIdx, nextSectionMatch) ==
    IF nextSectionMatch.ok
    THEN startIdx + (IF nextSectionMatch.index # 0 THEN nextSectionMatch.index
                     ELSE SectionMarkerDefault)
    ELSE startIdx + SectionNoMarkerLen

\* the section that follows a header found; startIdx is 0-based
sectionAt(text, startIdx) ==
    trim(slice(text, startIdx,
               minOf(sectionEnd(startIdx, match(slice(text, startIdx, Len(text)), nextSectionRe)),
                     startIdx + SectionCap)))

RECURSIVE extractSectionFrom(_, _, _, _)
\* the body of the loop over headers, idx being the header's position (1-based, 0: none)
sectionIf(text, lowerText, headers, k, idx) ==
    IF idx # 0 THEN sectionAt(text, (idx - 1) + Len(headers[k]))
    ELSE extractSectionFrom(text, lowerText, headers, k + 1)

extractSectionFrom(text, lowerText, headers, k) ==
    IF k > Len(headers) THEN ""
    ELSE sectionIf(text, lowerText, headers, k, indexOf(lowerText, toLowerCase(headers[k])))

\* a variant that takes the header occurring earliest in the text
RECURSIVE earliestHeader(_, _, _, _)
earliestHeader(lowerText, headers, k, best) ==
    IF k > Len(headers) THEN best
    ELSE LET idx == indexOf(lowerText, toLowerCase(headers[k]))
         IN earliestHeader(lowerText, headers, k + 1,
                           IF idx # 0 /\ (best = 0 \/ idx < indexOf(lowerText, toLowerCase(headers[best])))
                           THEN k ELSE best)

extractSection_earliestHeader(text, headers) ==
    LET best == earliestHeader(toLowerCase(text), headers, 1, 0)
    IN IF best = 0 THEN ""
       ELSE sectionAt(text, indexOf(toLowerCase(text), toLowerCase(headers[best])) - 1
                            + Len(headers[best]))

extractSection(text, headers) == extractSectionFrom(text, toLowerCase(text), headers, 1)

\* a variant that searches the whole text whatever the section is
orText_wholeText(section, text) == text

\* `section || text`
orText(section, text) == IF section # "" THEN section ELSE text

(***************************************************************************)
(* extractDates                                                            *)
(***************************************************************************)
Sep == Opt(In({":", "-"}))
Four == Rep(In(Digit), 4, 4)
\* [\d\/\-]+\s*\w*\s*\d{4}   and   \d{1,2}\s+\w+\s+\d{4}
DateNum == Cat(<<Plus(In(Digit \cup {"/", "-"})), Ws, Words0, Ws, Four>>)
DateWords == Cat(<<Rep(In(Digit), 1, 2), Ws1, Plus(In(Word)), Ws1, Four>>)
NotifySoon == Cat(<<LitI("notify"), Ws, LitI("soon")>>)

datePatterns == <<
    [regex |-> Re(Cat(<<LitI("application"), Ws,
                        Alt(<<LitI("begin"), LitI("start"), Cat(<<LitI("start"), Opt(LitI("s"))>>)>>),
                        Ws, Sep, Ws, Cap(1, Alt(<<DateNum, DateWords>>))>>), 1),
     label |-> "Application Start"],
    [regex |-> Re(Cat(<<Alt(<<LitI("last"), LitI("closing")>>), Ws, LitI("date"), Ws,
                        Opt(Cat(<<LitI("for"), Ws,
                                  Alt(<<LitI("apply"), LitI("application"), LitI("online")>>)>>)),
                        Ws, Sep, Ws, Cap(1, Alt(<<DateNum, DateWords>>))>>), 1),
     label |-> "Last Date"],
    [regex |-> Re(Cat(<<LitI("late"), Ws, LitI("fee"), Ws,
                        Opt(Alt(<<LitI("date"), Cat(<<LitI("last"), Ws, LitI("date")>>)>>)),
                        Ws, Sep, Ws, Cap(1, Alt(<<DateNum, DateWords>>))>>), 1),
     label |-> "Late Fee Date"],
    [regex |-> Re(Cat(<<LitI("exam"), Ws, LitI("date"), Ws, Sep, Ws,
                        Cap(1, Alt(<<DateNum, DateWords, NotifySoon,
                                     Cat(<<LitI("will"), Ws, LitI("be"), Ws, LitI("notified")>>)>>))>>), 1),
     label |-> "Exam Date"],
    [regex |-> Re(Cat(<<LitI("admit"), Ws, LitI("card"), Ws,
                        Opt(Alt(<<LitI("date"), LitI("available")>>)),
                        Ws, Sep, Ws,
                        Cap(1, Alt(<<DateNum, DateWords,
                                     Cat(<<LitI("before"), Ws, LitI("exam")>>), NotifySoon>>))>>), 1),
     label |-> "Admit Card"],
    [regex |-> Re(Cat(<<LitI("result"), Ws,
                        Opt(Alt(<<LitI("date"), LitI("declaration")>>)),
                        Ws, Sep, Ws,
                        Cap(1, Alt(<<DateNum, NotifySoon,
                                     Cat(<<LitI("will"), Ws, LitI("be"), Ws, LitI("updated")>>)>>))>>), 1),
     label |-> "Result Date"],
    [regex |-> Re(Cat(<<LitI("fee"), Ws, LitI("payment"), Ws,
                        Opt(Cat(<<LitI("last"), Ws, LitI("date")>>)),
                        Ws, Sep, Ws, Cap(1, Alt(<<DateNum, DateWords>>))>>), 1),
     label |-> "Fee Payment Last Date"] >>

\* /^([^:]+):\s*([\d\/\-]+\s*\w*\s*\d{4}|\d{1,2}\s+\w+\s+\d{4})/
colonRe == Re(Cat(<<Bol, Cap(1, Plus(NotIn({":"}))), Lit(":"), Ws,
                    Cap(2, Alt(<<DateNum, DateWords>>))>>), 2)

\* a variant that goes on without looking at the match
dateGuard_matchUnchecked(m) == TRUE

\* `match && match[1]`
dateGuard(m) == m.ok /\ truthy(group(m, 1))

\* the body of the loop over datePatterns, m being the pattern's match
dateOfPattern(acc, label, m) ==
    IF dateGuard(m)
    THEN [threw |-> acc.threw \/ derefThrows(m, 1),
          out |-> Append(acc.out, [label |-> label, date |-> trim(str(group(m, 1)))])]
    ELSE acc

RECURSIVE datesByPattern(_, _, _)
datesByPattern(searchText, k, acc) ==
    IF k > Len(datePatterns) THEN acc
    ELSE datesByPattern(searchText, k + 1,
            dateOfPattern(acc, datePatterns[k].label, match(searchText, datePatterns[k].regex)))

\* a variant that compares the labels as they are written
hasLabel_exactCase(dates, label) == \E i \in 1..Len(dates) : dates[i].label = label

hasLabel(dates, label) ==
    \E i \in 1..Len(dates) : toLowerCase(dates[i].label) = toLowerCase(label)

\* the body of the loop over the lines, colonMatch being the line's match
dateOfLine(acc, colonMatch, label) ==
    IF colonMatch.ok /\ ~hasLabel(acc.out, label)
    THEN IF Len(label) > 3 /\ Len(label) < 50
         THEN [threw |-> acc.threw \/ derefThrows(colonMatch, 1) \/ derefThrows(colonMatch, 2),
               out |-> Append(acc.out, [label |-> label,
                                        date |-> trim(str(group(colonMatch, 2)))])]
         ELSE [acc EXCEPT !.threw = @ \/ derefThrows(colonMatch, 1)]
    ELSE acc

labelOf(colonMatch) == trim(str(group(colonMatch, 1)))

dateOfMatch(acc, colonMatch) == dateOfLine(acc, colonMatch, labelOf(colonMatch))

RECURSIVE datesByLine(_, _, _)
datesByLine(lines, k, acc) ==
    IF k > Len(lines) THEN acc
    ELSE datesByLine(lines, k + 1, dateOfMatch(acc, match(lines[k], colonRe)))

datesIn(searchText) ==
    datesByLine(split(searchText, "\n"), 1,
                datesByPattern(searchText, 1, [threw |-> FALSE, out |-> <<>>]))

extractDates(text) ==
    datesIn(orText(extractSection(text, <<"Important Dates", "IMPORTANT DATES",
                                          "Important Date">>), text))

(***************************************************************************)
(* extractFees                                                             *)
(***************************************************************************)
\* (?:₹|rs\.?|inr)?   [\d,]+   (?:\/\s*)?
Currency == Opt(Alt(<<Lit("₹"), Cat(<<LitI("rs"), Opt(Lit("."))>>), LitI("inr")>>))
Amount == Plus(In(Digit \cup {","}))
AmountOrNil == Alt(<<Amount, LitI("nil"), LitI("exempted")>>)
Slash == Opt(Cat(<<Lit("/"), Ws>>))

\* <category words>\s*[:\-]?\s*(?:₹|rs\.?|inr)?\s*(<value>)
feeRe(categoryWords, value) ==
    Re(Cat(categoryWords \o <<Ws, Sep, Ws, Currency, Ws, Cap(1, value)>>), 1)

feePatterns == <<
    [regex |-> feeRe(<<LitI("general"), Ws, Slash,
                       Opt(Cat(<<LitI("ews"), Ws, Slash>>)), Opt(LitI("obc"))>>, Amount),
     category |-> "General/EWS/OBC"],
    [regex |-> feeRe(<<LitI("general")>>, Amount), category |-> "General"],
    [regex |-> feeRe(<<LitI("obc")>>, Amount), category |-> "OBC"],
    [regex |-> feeRe(<<LitI("ews")>>, Amount), category |-> "EWS"],
    [regex |-> feeRe(<<LitI("sc"), Ws, Slash, LitI("st")>>, AmountOrNil), category |-> "SC/ST"],
    [regex |-> feeRe(<<LitI("sc")>>, AmountOrNil), category |-> "SC"],
    [regex |-> feeRe(<<LitI("st")>>, AmountOrNil), category |-> "ST"],
    [regex |-> feeRe(<<LitI("female")>>, AmountOrNil), category |-> "Female"],
    [regex |-> feeRe(<<Alt(<<LitI("ph"), LitI("pwd"), LitI("divyang")>>)>>, AmountOrNil),
     category |-> "PH/PWD"],
    [regex |-> feeRe(<<LitI("ex"), Star(In({"-"} \cup Space)), LitI("servicem"),
                       In({"a", "e", "A", "E"}), LitI("n")>>, AmountOrNil),
     category |-> "Ex-Serviceman"] >>

\* a variant that leaves the thousands separators in the amount
feeOf_keepCommas(captured) ==
    IF toLowerCase(captured) = "nil" \/ toLowerCase(captured) = "exempted"
    THEN "Nil"
    ELSE "₹" \o captured \o "/-"

\* the fee text of a capture
feeOf(captured) ==
    IF toLowerCase(captured) = "nil" \/ toLowerCase(captured) = "exempted"
    THEN "Nil"
    ELSE "₹" \o removeChars(captured, {","}) \o "/-"

\* a variant that finds no entry
hasCategory_never(list, category) == FALSE

\* `list.find(f => f.category === category)` as a condition
hasCategory(list, category) == \E i \in 1..Len(list) : list[i].category = category

\* the body of the loop over feePatterns, m being the pattern's match
feeOfPattern(acc, category, m) ==
    IF m.ok /\ truthy(group(m, 1))
    THEN [threw |-> acc.threw \/ derefThrows(m, 1),
          out |-> IF ~hasCategory(acc.out, category)
                  THEN Append(acc.out, [category |-> category, fee |-> feeOf(str(group(m, 1)))])
                  ELSE acc.out]
    ELSE acc

RECURSIVE feesByPattern(_, _, _)
feesByPattern(searchText, k, acc) ==
    IF k > Len(feePatterns) THEN acc
    ELSE feesByPattern(searchText, k + 1,
            feeOfPattern(acc, feePatterns[k].category, match(searchText, feePatterns[k].regex)))

extractFees(text) ==
    feesByPattern(orText(extractSection(text, <<"Application Fee", "APPLICATION FEE",
                                                "Exam Fee", "EXAM FEE">>), text),
                  1, [threw |-> FALSE, out |-> <<>>])

(***************************************************************************)
(* extractAgeLimit                                                         *)
(***************************************************************************)
ToOrDash == Alt(<<LitI("to"), Lit("-")>>)

\* /(?:minimum|min)\s*(?:age)?\s*[:\-]?\s*(\d+)\s*(?:years?)?[\s,]*
\*  (?:maximum|max)\s*(?:age)?\s*[:\-]?\s*(\d+)/i
singleAgeRe ==
    Re(Cat(<<Alt(<<LitI("minimum"), LitI("min")>>), Ws, Opt(LitI("age")), Ws, Sep, Ws,
             Cap(1, Digits1), Ws, Opt(Cat(<<LitI("year"), Opt(LitI("s"))>>)),
             Star(In(Space \cup {","})),
             Alt(<<LitI("maximum"), LitI("max")>>), Ws, Opt(LitI("age")), Ws, Sep, Ws,
             Cap(2, Digits1)>>), 2)

\* /(\d+)\s*(?:to|-)\s*(\d+)\s*years?/i
rangeRe ==
    Re(Cat(<<Cap(1, Digits1), Ws, ToOrDash, Ws, Cap(2, Digits1), Ws,
             LitI("year"), Opt(LitI("s"))>>), 2)

\* /<k>\s*[:\-]?\s*(\d+)\s*(?:to|-)\s*(\d+)|<k0>\s*[:\-]?[^0-9]*max(?:imum)?\s*(\d+)/i
ageCategoryRe(keyword, keywordOfMax) ==
    Re(Alt(<<Cat(keyword \o <<Ws, Sep, Ws, Cap(1, Digits1), Ws, ToOrDash, Ws, Cap(2, Digits1)>>),
             Cat(<<keywordOfMax, Ws, Sep, Star(NotIn(Digit)), LitI("max"),
                   Opt(LitI("imum")), Ws, Cap(3, Digits1)>>)>>), 3)

categoryPatterns == <<
    [regex |-> ageCategoryRe(<<LitI("general")>>, LitI("general")), category |-> "General"],
    [regex |-> ageCategoryRe(<<LitI("obc")>>, LitI("obc")), category |-> "OBC"],
    [regex |-> ageCategoryRe(<<LitI("sc"), Ws, Opt(Cat(<<Lit("/"), Ws, LitI("st")>>))>>,
                             LitI("sc")),
     category |-> "SC/ST"],
    [regex |-> ageCategoryRe(<<LitI("ews")>>, LitI("ews")), category |-> "EWS"] >>

\* `a || b` on captures and strings
orElse(captured, default) == IF truthy(captured) THEN captured[1] ELSE default

DefaultMinAge == "18"
DefaultMaxAge == "35"

\* the body of the loop over categoryPatterns, m being the pattern's match
ageOfCategory(ages, category, m) ==
    IF m.ok /\ ~hasCategory(ages, category)
    THEN Append(ages, [category |-> category,
                       minAge |-> orElse(group(m, 1), DefaultMinAge),
                       maxAge |-> orElse(group(m, 2), orElse(group(m, 3), DefaultMaxAge))])
    ELSE ages

RECURSIVE agesByCategory(_, _, _)
agesByCategory(searchText, k, ages) ==
    IF k > Len(categoryPatterns) THEN ages
    ELSE agesByCategory(searchText, k + 1,
            ageOfCategory(ages, categoryPatterns[k].category,
                          match(searchText, categoryPatterns[k].regex)))

\* a variant that prefers the 'N to M years' range
generalAge_rangeFirst(singleAgeMatch, rangeMatch) ==
    IF rangeMatch.ok
    THEN <<[category |-> "General", minAge |-> str(group(rangeMatch, 1)),
            maxAge |-> str(group(rangeMatch, 2))]>>
    ELSE IF singleAgeMatch.ok
    THEN <<[category |-> "General", minAge |-> str(group(singleAgeMatch, 1)),
            maxAge |-> str(group(singleAgeMatch, 2))]>>
    ELSE <<>>

\* a variant that reads the minimum/maximum wording only
generalAge_singleOnly(singleAgeMatch, rangeMatch) ==
    IF singleAgeMatch.ok
    THEN <<[category |-> "General", minAge |-> str(group(singleAgeMatch, 1)),
            maxAge |-> str(group(singleAgeMatch, 2))]>>
    ELSE <<>>

\* the 'General' entry pushed before the category patterns are tried
generalAge(singleAgeMatch, rangeMatch) ==
    IF singleAgeMatch.ok
    THEN <<[category |-> "General", minAge |-> str(group(singleAgeMatch, 1)),
            maxAge |-> str(group(singleAgeMatch, 2))]>>
    ELSE IF rangeMatch.ok
    THEN <<[category |-> "General", minAge |-> str(group(rangeMatch, 1)),
            maxAge |-> str(group(rangeMatch, 2))]>>
    ELSE <<>>

agesIn(searchText) ==
    agesByCategory(searchText, 1,
                   generalAge(match(searchText, singleAgeRe), match(searchText, rangeRe)))

extractAgeLimit(text) ==
    agesIn(orText(extractSection(text, <<"Age Limit", "AGE LIMIT", "Age Limits">>), text))

(***************************************************************************)
(* extractPhysicalEligibility                                              *)
(***************************************************************************)
NonDigits == Star(NotIn(Digit))
\* \d+\.?\d*
Decimal == Cat(<<Digits1, Opt(Lit(".")), Star(In(Digit))>>)

\* /height[^0-9]*(\d+\.?\d*)\s*(?:cm|meter)?[^0-9]*(?:male)?[^0-9]*(?:female)?
\*  [^0-9]*(\d+\.?\d*)?/i
heightRe ==
    Re(Cat(<<LitI("height"), NonDigits, Cap(1, Decimal), Ws,
             Opt(Alt(<<LitI("cm"), LitI("meter")>>)), NonDigits, Opt(LitI("male")),
             NonDigits, Opt(LitI("female")), NonDigits, Opt(Cap(2, Decimal))>>), 2)
\* /chest[^0-9]*(\d+)[^\d]*-[^\d]*(\d+)/i
chestRe ==
    Re(Cat(<<LitI("chest"), NonDigits, Cap(1, Digits1), NonDigits, Lit("-"), NonDigits,
             Cap(2, Digits1)>>), 2)
\* /weight[^0-9]*(\d+\.?\d*)\s*(?:kg)?/i
weightRe == Re(Cat(<<LitI("weight"), NonDigits, Cap(1, Decimal), Ws, Opt(LitI("kg"))>>), 1)

\* `m[n] ? `${m[n]} cm` : 'NA'`
withUnit(captured, unit) == IF truthy(captured) THEN captured[1] \o unit ELSE "NA"

physicalFrom(heightMatch, chestMatch, weightMatch) ==
    (IF heightMatch.ok
     THEN <<[criteria |-> "Height", male |-> withUnit(group(heightMatch, 1), " cm"),
             female |-> withUnit(group(heightMatch, 2), " cm")]>>
     ELSE <<>>)
    \o (IF chestMatch.ok
        THEN <<[criteria |-> "Chest",
                male |-> str(group(chestMatch, 1)) \o "-" \o str(group(chestMatch, 2)) \o " cm",
                female |-> "NA"]>>
        ELSE <<>>)
    \o (IF weightMatch.ok
        THEN <<[criteria |-> "Weight", male |-> str(group(weightMatch, 1)) \o " kg",
                female |-> "NA"]>>
        ELSE <<>>)

physicalOf(physSection) ==
    physicalFrom(match(physSection, heightRe), match(physSection, chestRe),
                 match(physSection, weightRe))

\* `if (!physSection) return physical` and what follows
physicalIn(physSection) == IF physSection = "" THEN <<>> ELSE physicalOf(physSection)

physicalHeaders == <<"Physical Eligibility", "PHYSICAL ELIGIBILITY", "Physical Standard",
                     "PHYSICAL STANDARD", "Physical Test">>

\* a variant that falls back to the whole document as the other extractors do
extractPhysicalEligibility_wholeDocument(text) ==
    physicalOf(orText(extractSection(text, physicalHeaders), text))

extractPhysicalEligibility(text) == physicalIn(extractSection(text, physicalHeaders))

(***************************************************************************)
(* extractVacancyDetails                                                   *)
(***************************************************************************)
LettersSpaces1 == Plus(In(Alpha \cup Space))

\* /total\s*(?:post|vacancy|vacancies)\s*[:\-]?\s*([\d,]+)/i
totalRe ==
    Re(Cat(<<LitI("total"), Ws, Alt(<<LitI("post"), LitI("vacancy"), LitI("vacancies")>>),
             Ws, Sep, Ws, Cap(1, Amount)>>), 1)
\* /([A-Za-z\s]+(?:constable|officer|clerk|assistant|manager|engineer|teacher|inspector)?)
\*  [:\-\s]+([\d,]+)\s*(?:post|vacancy)?/i
postRe ==
    Re(Cat(<<Cap(1, Cat(<<LettersSpaces1,
                          Opt(Alt(<<LitI("constable"), LitI("officer"), LitI("clerk"),
                                    LitI("assistant"), LitI("manager"), LitI("engineer"),
                                    LitI("teacher"), LitI("inspector")>>))>>)),
             Plus(In({":", "-"} \cup Space)), Cap(2, Amount), Ws,
             Opt(Alt(<<LitI("post"), LitI("vacancy")>>))>>), 2)
\* /(?:recruitment|notification|online\s*form)\s*(?:for|of)?\s*([A-Za-z\s]+)/i
roleRe ==
    Re(Cat(<<Alt(<<LitI("recruitment"), LitI("notification"),
                   Cat(<<LitI("online"), Ws, LitI("form")>>)>>), Ws,
             Opt(Alt(<<LitI("for"), LitI("of")>>)), Ws, Cap(1, LettersSpaces1)>>), 1)

\* the body of the loop over the lines: one entry pushed per matching line
vacancyOfLine(acc, postMatch) ==
    IF postMatch.ok /\ Len(trim(str(group(postMatch, 1)))) > 3
    THEN [threw |-> acc.threw \/ derefThrows(postMatch, 1) \/ derefThrows(postMatch, 2),
          out |-> Append(acc.out,
                     [postName |-> trim(str(group(postMatch, 1))),
                      totalPost |-> removeChars(str(group(postMatch, 2)), {","}),
                      eligibility |-> ""])]
    ELSE IF postMatch.ok
    THEN [acc EXCEPT !.threw = @ \/ derefThrows(postMatch, 1)]
    ELSE acc

RECURSIVE vacanciesByLine(_, _, _)
vacanciesByLine(lines, k, acc) ==
    IF k > Len(lines) THEN acc
    ELSE vacanciesByLine(lines, k + 1, vacancyOfLine(acc, match(lines[k], postRe)))

\* the entry pushed when no line gave one and the text states a total
vacancyOfTotal(totalMatch, titleMatch) ==
    [threw |-> derefThrows(totalMatch, 1) \/ (titleMatch.ok /\ derefThrows(titleMatch, 1)),
     out |-> <<[postName |-> IF titleMatch.ok THEN trim(str(group(titleMatch, 1)))
                             ELSE "Various Posts",
                totalPost |-> removeChars(str(group(totalMatch, 1)), {","}),
                eligibility |-> ""]>>]

\* a variant that adds the entry of the total to the entries of the lines
vacanciesOr_withLines(scanned, totalMatch, titleMatch) ==
    IF totalMatch.ok
    THEN [threw |-> scanned.threw,
          out |-> scanned.out \o vacancyOfTotal(totalMatch, titleMatch).out]
    ELSE scanned

\* `if (vacancies.length === 0 && totalMatch)` and what follows
vacanciesOr(scanned, totalMatch, titleMatch) ==
    IF Len(scanned.out) = 0 /\ totalMatch.ok
    THEN [vacancyOfTotal(totalMatch, titleMatch) EXCEPT !.threw = @ \/ scanned.threw]
    ELSE scanned

vacanciesIn(text, searchText) ==
    vacanciesOr(vacanciesByLine(split(searchText, "\n"), 1, [threw |-> FALSE, out |-> <<>>]),
                match(text, totalRe), match(text, roleRe))

extractVacancyDetails(text) ==
    vacanciesIn(text, orText(extractSection(text, <<"Vacancy Details", "VACANCY DETAILS",
                                                    "Post Wise Vacancy", "POST WISE VACANCY",
                                                    "Total Post">>), text))

(***************************************************************************)
(* extractLinks                                                            *)
(***************************************************************************)
\* /https?:\/\/[^\s<>"')\]]+/gi
urlRegex ==
    Re(Cat(<<LitI("http"), Opt(LitI("s")), Lit("://"),
             Plus(NotIn(Space \cup {"<", ">", "\"", "'", ")", "]"}))>>), 0)

NoLinks == [applyOnlineUrl |-> <<>>, notificationUrl |-> <<>>, admitCardUrl |-> <<>>,
            resultUrl |-> <<>>, answerKeyUrl |-> <<>>, officialWebsiteUrl |-> <<>>]

\* `if (!links.<bucket>) links.<bucket> = url`
setOnce(links, bucket, url) ==
    IF ~truthy(links[bucket]) THEN [links EXCEPT ![bucket] = <<url>>] ELSE links

\* a variant that tests the official-website keywords first
classifyUrl_officialFirst(links, url) ==
    LET lowerUrl == toLowerCase(url)
    IN IF includes(lowerUrl, "gov.in") \/ includes(lowerUrl, "nic.in")
       THEN setOnce(links, "officialWebsiteUrl", url)
       ELSE IF includes(lowerUrl, "apply") \/ includes(lowerUrl, "registration")
       THEN setOnce(links, "applyOnlineUrl", url)
       ELSE IF includes(lowerUrl, "notification") \/ includes(lowerUrl, "pdf")
       THEN setOnce(links, "notificationUrl", url)
       ELSE IF includes(lowerUrl, "admit") \/ includes(lowerUrl, "hall-ticket")
       THEN setOnce(links, "admitCardUrl", url)
       ELSE IF includes(lowerUrl, "result")
       THEN setOnce(links, "resultUrl", url)
       ELSE IF includes(lowerUrl, "answer") \/ includes(lowerUrl, "key")
       THEN setOnce(links, "answerKeyUrl", url)
       ELSE links

\* the body of the loop over allUrls
classifyUrl(links, url) ==
    LET lowerUrl == toLowerCase(url)
    IN IF includes(lowerUrl, "apply") \/ includes(lowerUrl, "registration")
       THEN setOnce(links, "applyOnlineUrl", url)
       ELSE IF includes(lowerUrl, "notification") \/ includes(lowerUrl, "pdf")
       THEN setOnce(links, "notificationUrl", url)
       ELSE IF includes(lowerUrl, "admit") \/ includes(lowerUrl, "hall-ticket")
       THEN setOnce(links, "admitCardUrl", url)
       ELSE IF includes(lowerUrl, "result")
       THEN setOnce(links, "resultUrl", url)
       ELSE IF includes(lowerUrl, "answer") \/ includes(lowerUrl, "key")
       THEN setOnce(links, "answerKeyUrl", url)
       ELSE IF includes(lowerUrl, "gov.in") \/ includes(lowerUrl, "nic.in")
       THEN setOnce(links, "officialWebsiteUrl", url)
       ELSE links

RECURSIVE classifyAll(_, _, _)
classifyAll(allUrls, k, links) ==
    IF k > Len(allUrls) THEN links
    ELSE classifyAll(allUrls, k + 1, classifyUrl(links, allUrls[k]))

\* `text.match(urlRegex) || []`
allUrlsOf(text) == matchAll(text, urlRegex)

extractLinks(text) == classifyAll(allUrlsOf(text), 1, NoLinks)

(***************************************************************************)
(* extractSelectionProcess                                                 *)
(***************************************************************************)
stages == <<"Written Exam", "Written Test", "CBT", "Computer Based Test",
            "Physical Efficiency Test", "PET", "Physical Standard Test", "PST",
            "Document Verification", "Medical Test", "Medical Examination",
            "Interview", "Skill Test", "Typing Test", "Trade Test">>

\* String.prototype.replace(/\s+/g, ' ')
RECURSIVE collapseFrom(_, _)
collapseFrom(t, i) ==
    IF i > Len(t) THEN ""
    ELSE IF At(t, i) \in Space
         THEN " " \o collapseFrom(t, firstBad(In(Space), t, i, Len(t)))
         ELSE LET j == firstBad(NotIn(Space), t, i, Len(t))
              IN SubSeq(t, i, j - 1) \o collapseFrom(t, j)

collapseSpaces(t) == collapseFrom(t, 1)

inSeq(list, x) == \E i \in 1..Len(list) : list[i] = x

\* a variant that looks for the stage names as they are written in the list
RECURSIVE stagesFound_exactCase(_, _, _)
stagesFound_exactCase(lowerSearch, k, process) ==
    IF k > Len(stages) THEN process
    ELSE stagesFound_exactCase(lowerSearch, k + 1,
            IF includes(lowerSearch, stages[k]) /\ ~inSeq(process, stages[k])
            THEN Append(process, stages[k]) ELSE process)

RECURSIVE stagesFound(_, _, _)
stagesFound(lowerSearch, k, process) ==
    IF k > Len(stages) THEN process
    ELSE stagesFound(lowerSearch, k + 1,
            IF includes(lowerSearch, toLowerCase(stages[k]))
            THEN LET normalized == trim(collapseSpaces(stages[k]))
                 IN IF ~inSeq(process, normalized) THEN Append(process, normalized)
                    ELSE process
            ELSE process)

extractSelectionProcess(text) ==
    LET selSection == extractSection(text, <<"Selection Process", "SELECTION PROCESS",
                                             "Mode of Selection">>)
        searchText == orText(selSection, text)
    IN stagesFound(toLowerCase(searchText), 1, <<>>)

(***************************************************************************)
(* detectType                                                              *)
(***************************************************************************)
\* a variant that tests the admission rule first
detectType_admissionFirst(text) ==
    LET lowerText == toLowerCase(text) IN
    IF includes(lowerText, "admission") /\ ~includes(lowerText, "admit card")
    THEN "admission"
    ELSE IF includes(lowerText, "admit card") \/ includes(lowerText, "hall ticket")
            \/ includes(lowerText, "call letter")
    THEN "admit-card"
    ELSE IF includes(lowerText, "result")
            /\ (includes(lowerText, "download") \/ includes(lowerText, "declared")
                \/ includes(lowerText, "out"))
    THEN "result"
    ELSE IF includes(lowerText, "answer key") THEN "answer-key"
    ELSE "job"

detectType(text) ==
    LET lowerText == toLowerCase(text) IN
    IF includes(lowerText, "admit card") \/ includes(lowerText, "hall ticket")
       \/ includes(lowerText, "call letter")
    THEN "admit-card"
    ELSE IF includes(lowerText, "result")
            /\ (includes(lowerText, "download") \/ includes(lowerText, "declared")
                \/ includes(lowerText, "out"))
    THEN "result"
    ELSE IF includes(lowerText, "answer key") THEN "answer-key"
    ELSE IF includes(lowerText, "admission") /\ ~includes(lowerText, "admit card")
    THEN "admission"
    ELSE "job"

(***************************************************************************)
(* extractTitle                                                            *)
(***************************************************************************)
TitleScanLines == 10
TitleLineMax == 150
TitleFallbackLen == 100

\* /recruitment|notification|online\s*form|vacancy|bharti/i
titleKeywordRe ==
    Re(Alt(<<LitI("recruitment"), LitI("notification"),
             Cat(<<LitI("online"), Ws, LitI("form")>>), LitI("vacancy"), LitI("bharti")>>), 0)
\* /(?:recruitment|notification|online\s*form)\s*(?:for|of)?\s*
\*  ([A-Za-z0-9\s\-]+(?:2024|2025|2026)?)/i
titleRe ==
    Re(Cat(<<Alt(<<LitI("recruitment"), LitI("notification"),
                   Cat(<<LitI("online"), Ws, LitI("form")>>)>>), Ws,
             Opt(Alt(<<LitI("for"), LitI("of")>>)), Ws,
             Cap(1, Cat(<<Plus(In(Alpha \cup Digit \cup Space \cup {"-"})),
                          Opt(Alt(<<Lit("2024"), Lit("2025"), Lit("2026")>>))>>))>>), 1)

nonBlank(line) == Len(trim(line)) > 0

\* the first of lines[k..n] that holds a title keyword and is short enough, or 0
RECURSIVE titleLine(_, _, _)
titleLine(lines, k, n) ==
    IF k > n THEN 0
    ELSE IF match(lines[k], titleKeywordRe).ok /\ Len(lines[k]) < TitleLineMax THEN k
    ELSE titleLine(lines, k + 1, n)

\* `lines[0]?.slice(0, 100) || 'Government Job Notification'`
firstLineOr(lines) ==
    IF Len(lines) > 0 /\ slice(lines[1], 0, TitleFallbackLen) # ""
    THEN slice(lines[1], 0, TitleFallbackLen)
    ELSE "Government Job Notification"

\* a variant that tries the match in the whole text before the lines
titleOf_matchFirst(lines, k, titleMatch) ==
    IF titleMatch.ok THEN trim(titleMatch.all)
    ELSE IF k # 0 THEN trim(removeChars(trim(lines[k]), {"*", "#", "_"}))
    ELSE firstLineOr(lines)

titleOf(lines, k, titleMatch) ==
    IF k # 0 THEN trim(removeChars(trim(lines[k]), {"*", "#", "_"}))
    ELSE IF titleMatch.ok THEN trim(titleMatch.all)
    ELSE firstLineOr(lines)

titleIn(text, lines) ==
    titleOf(lines, titleLine(lines, 1, minOf(Len(lines), TitleScanLines)), match(text, titleRe))

extractTitle(text) == titleIn(text, SelectSeq(split(text, "\n"), nonBlank))

(***************************************************************************)
(* extractDepartment                                                       *)
(***************************************************************************)
DepartmentMax == 100

deptPatterns == <<
    \* /(?:organization|department|ministry|commission|board|corporation)\s*[:\-]?\s*
    \*  ([A-Za-z\s]+)/i
    Re(Cat(<<Alt(<<LitI("organization"), LitI("department"), LitI("ministry"),
                   LitI("commission"), LitI("board"), LitI("corporation")>>),
             Ws, Sep, Ws, Cap(1, LettersSpaces1)>>), 1),
    \* /([A-Za-z\s]+(?:commission|board|ministry|department|corporation|police|railway|bank))/i
    Re(Cap(1, Cat(<<LettersSpaces1,
                    Alt(<<LitI("commission"), LitI("board"), LitI("ministry"),
                          LitI("department"), LitI("corporation"), LitI("police"),
                          LitI("railway"), LitI("bank")>>)>>)), 1) >>

RECURSIVE departmentFrom(_, _)
departmentOf(text, k, m) ==
    IF m.ok /\ truthy(group(m, 1))
    THEN [threw |-> derefThrows(m, 1), out |-> slice(trim(str(group(m, 1))), 0, DepartmentMax)]
    ELSE departmentFrom(text, k + 1)

departmentFrom(text, k) ==
    IF k > Len(deptPatterns) THEN [threw |-> FALSE, out |-> "Government of India"]
    ELSE departmentOf(text, k, match(text, deptPatterns[k]))

extractDepartment(text) == departmentFrom(text, 1)

(***************************************************************************)
(* extractQualification                                                    *)
(***************************************************************************)
QualSectionMin == 20
QualificationMax == 500

Passed == Alt(<<LitI("pass"), LitI("passed"), LitI("class")>>)

\* each pattern with its source text (RegExp.prototype.source)
qualPatterns == <<
    [regex |-> Re(Cat(<<LitI("10th"), Ws, Passed>>), 0),
     source |-> "10th\\s*(?:pass|passed|class)"],
    [regex |-> Re(Cat(<<LitI("12th"), Ws,
                        Alt(<<LitI("pass"), LitI("passed"), LitI("class"),
                              LitI("intermediate")>>)>>), 0),
     source |-> "12th\\s*(?:pass|passed|class|intermediate)"],
    [regex |-> Re(Alt(<<LitI("graduation"), LitI("graduate"), LitI("bachelor")>>), 0),
     source |-> "graduation|graduate|bachelor"],
    [regex |-> Re(Alt(<<Cat(<<LitI("post"), Ws, LitI("graduation")>>), LitI("master")>>), 0),
     source |-> "post\\s*graduation|master"],
    [regex |-> Re(Alt(<<Cat(<<LitI("b"), Opt(Lit(".")), LitI("tech")>>),
                        Cat(<<LitI("b"), Opt(Lit(".")), LitI("e"), Lit(".")>>),
                        LitI("engineering")>>), 0),
     source |-> "b\\.?tech|b\\.?e\\.|engineering"],
    [regex |-> Re(Alt(<<LitI("mbbs"), LitI("medical")>>), 0),
     source |-> "mbbs|medical"] >>

\* String.prototype.replace(re, by) with the g flag
RECURSIVE replaceAllFrom(_, _, _, _)
replacedAfter(t, re, by, i, r) ==
    IF ~r.ok THEN SubSeq(t, i, Len(t))
    ELSE IF r.e > r.index + 1
    THEN SubSeq(t, i, r.index) \o by \o replaceAllFrom(t, re, by, r.e)
    ELSE SubSeq(t, i, minOf(r.e, Len(t))) \o by
         \o (IF r.e > Len(t) THEN "" ELSE replaceAllFrom(t, re, by, r.e + 1))

replaceAllFrom(t, re, by, i) == replacedAfter(t, re, by, i, searchFrom(re, t, i))

replaceAll(t, re, by) == replaceAllFrom(t, re, by, 1)

\* /\\s\*|\?\:|\|/g   and   /\\/g
sourceNoiseRe == Re(Alt(<<Lit("\\s*"), Lit("?:"), Lit("|")>>), 0)
backslashRe == Re(Lit("\\"), 0)

readable(source) == replaceAll(replaceAll(source, sourceNoiseRe, " "), backslashRe, "")

\* Array.prototype.join
RECURSIVE join(_, _)
join(list, sep) ==
    IF Len(list) = 0 THEN ""
    ELSE IF Len(list) = 1 THEN list[1]
    ELSE list[1] \o sep \o join(Tail(list), sep)

RECURSIVE qualsFound(_, _)
qualsFound(text, k) ==
    IF k > Len(qualPatterns) THEN <<>>
    ELSE (IF match(text, qualPatterns[k].regex).ok
          THEN <<readable(qualPatterns[k].source)>> ELSE <<>>)
         \o qualsFound(text, k + 1)

\* `found.length > 0 ? found.join(', ') : ''`
joined(found) == IF Len(found) > 0 THEN join(found, ", ") ELSE ""

qualificationOf(text, qualSection) ==
    IF qualSection # "" /\ Len(qualSection) > QualSectionMin
    THEN slice(qualSection, 0, QualificationMax)
    ELSE joined(qualsFound(text, 1))

extractQualification(text) ==
    qualificationOf(text, extractSection(text, <<"Educational Qualification",
                                                 "EDUCATIONAL QUALIFICATION", "Qualification",
                                                 "QUALIFICATION", "Eligibility">>))

(***************************************************************************)
(* extractState                                                            *)
(***************************************************************************)
states == <<"Uttar Pradesh", "UP", "Bihar", "Rajasthan", "Madhya Pradesh", "MP",
            "Maharashtra", "Gujarat", "Karnataka", "Tamil Nadu", "Kerala",
            "West Bengal", "Haryana", "Punjab", "Delhi", "Uttarakhand",
            "Jharkhand", "Chhattisgarh", "Odisha", "Assam", "Telangana",
            "Andhra Pradesh", "Himachal Pradesh", "Jammu", "Kashmir">>

\* a variant that looks for the state names in any letter case
RECURSIVE stateFrom_anyCase(_, _)
stateFrom_anyCase(text, k) ==
    IF k > Len(states)
    THEN IF includes(toLowerCase(text), "all india")
            \/ includes(toLowerCase(text), "central government")
         THEN "All India"
         ELSE ""
    ELSE IF includes(toLowerCase(text), toLowerCase(states[k]))
         THEN IF states[k] = "UP" THEN "Uttar Pradesh"
              ELSE IF states[k] = "MP" THEN "Madhya Pradesh"
              ELSE states[k]
         ELSE stateFrom_anyCase(text, k + 1)

RECURSIVE stateFrom(_, _)
stateFrom(text, k) ==
    IF k > Len(states)
    THEN IF includes(toLowerCase(text), "all india")
            \/ includes(toLowerCase(text), "central government")
         THEN "All India"
         ELSE ""
    ELSE IF includes(text, states[k])
         THEN IF states[k] = "UP" THEN "Uttar Pradesh"
              ELSE IF states[k] = "MP" THEN "Madhya Pradesh"
              ELSE states[k]
         ELSE stateFrom(text, k + 1)

extractState(text) == stateFrom(text, 1)

(***************************************************************************)
(* parseJobNotification                                                    *)
(***************************************************************************)
DecimalDigits == <<"0", "1", "2", "3", "4", "5", "6", "7", "8", "9">>
digitValue(ch) == (CHOOSE d \in 1..10 : DecimalDigits[d] = ch) - 1

\* the number written by the digits t[1..n]
RECURSIVE digitsValue(_, _)
digitsValue(t, n) ==
    IF n = 0 THEN 0 ELSE 10 * digitsValue(t, n - 1) + digitValue(At(t, n))

\* parseInt(t) for a text without a 0x prefix: white space and a sign are
\* skipped, the leading digits are read; no digit there is NaN
parseInt(t) ==
    LET from == firstBad(In(Space), t, 1, Len(t))
        signed == from <= Len(t) /\ At(t, from) \in {"+", "-"}
        first == IF signed THEN from + 1 ELSE from
        n == runLen(In(Digit), t, first, -1)
        value == digitsValue(SubSeq(t, first, first + n - 1), n)
    IN IF n = 0 THEN [nan |-> TRUE, value |-> 0]
       ELSE [nan |-> FALSE,
             value |-> IF signed /\ At(t, from) = "-" THEN 0 - value ELSE value]

\* a variant that reads the first character only
postCount_firstDigit(totalPost) ==
    LET parsed == parseInt(SubSeq(totalPost, 1, minOf(1, Len(totalPost))))
    IN IF parsed.nan THEN 0 ELSE parsed.value

\* `parseInt(v.totalPost) || 0`
postCount(totalPost) ==
    LET parsed == parseInt(totalPost)
    IN IF parsed.nan \/ parsed.value = 0 THEN 0 ELSE parsed.value

\* vacancyDetails.reduce((sum, v) => sum + (parseInt(v.totalPost) || 0), 0)
RECURSIVE totalPostsOf(_)
totalPostsOf(vacancyDetails) ==
    IF Len(vacancyDetails) = 0 THEN 0
    ELSE totalPostsOf(SubSeq(vacancyDetails, 1, Len(vacancyDetails) - 1))
         + postCount(vacancyDetails[Len(vacancyDetails)].totalPost)

\* a non-negative integer in a template literal
RECURSIVE numberText(_)
numberText(n) ==
    IF n < 10 THEN DecimalDigits[n + 1]
    ELSE numberText(n \div 10) \o DecimalDigits[(n % 10) + 1]

\* importantDates.find(d => d.label.includes('Last'))?.date, '' when there is none
RECURSIVE lastDateFrom(_, _)
lastDateFrom(importantDates, k) ==
    IF k > Len(importantDates) THEN ""
    ELSE IF includes(importantDates[k].label, "Last") THEN importantDates[k].date
    ELSE lastDateFrom(importantDates, k + 1)

shortInfoOf(department, title, totalPosts, importantDates) ==
    LET lastDate == lastDateFrom(importantDates, 1)
    IN trim(department \o " has released notification for " \o title \o ". "
            \o (IF totalPosts > 0 THEN "Total " \o numberText(totalPosts) \o " posts available."
                ELSE "")
            \o " "
            \o (IF lastDate # "" THEN "Last date to apply: " \o lastDate \o "." ELSE ""))

\* a property of the returned object is <<>> when undefined and <<v>> otherwise
\* `name: value`
assigned(value) == <<value>>

\* a variant that leaves an empty list out of the object
listProperty_dropEmpty(list) == IF Len(list) = 0 THEN <<>> ELSE <<list>>

\* `name: list` for the list-valued properties
listProperty(list) == <<list>>

\* `name: value || undefined`
orUndefined(value) == IF value # "" THEN <<value>> ELSE <<>>

Thrown == [kind |-> "thrown"]

\* the object of the return statement, found holding the constants of lines 577-588
parsedJob(found) ==
    IF found.department.threw \/ found.importantDates.threw \/ found.applicationFee.threw
       \/ found.vacancyDetails.threw
    THEN Thrown
    ELSE [kind |-> "record",
          title |-> found.title,
          department |-> found.department.out,
          type |-> found.type,
          shortInfo |-> shortInfoOf(found.department.out, found.title,
                                    totalPostsOf(found.vacancyDetails.out),
                                    found.importantDates.out),
          qualification |-> orUndefined(found.qualification),
          state |-> orUndefined(found.state),
          vacancyDetails |-> listProperty(found.vacancyDetails.out),
          applicationFee |-> listProperty(found.applicationFee.out),
          importantDates |-> listProperty(found.importantDates.out),
          ageLimit |-> listProperty(found.ageLimit),
          eligibilityDetails |-> assigned(found.qualification),
          selectionProcess |-> listProperty(found.selectionProcess),
          physicalEligibility |-> listProperty(found.physicalEligibility),
          applyOnlineUrl |-> found.links.applyOnlineUrl,
          admitCardUrl |-> found.links.admitCardUrl,
          resultUrl |-> found.links.resultUrl,
          answerKeyUrl |-> found.links.answerKeyUrl,
          notificationUrl |-> found.links.notificationUrl,
          officialWebsiteUrl |-> found.links.officialWebsiteUrl]

parseJobNotification(text) ==
    parsedJob([title |-> extractTitle(text),
               department |-> extractDepartment(text),
               type |-> detectType(text),
               importantDates |-> extractDates(text),
               applicationFee |-> extractFees(text),
               ageLimit |-> extractAgeLimit(text),
               physicalEligibility |-> extractPhysicalEligibility(text),
               vacancyDetails |-> extractVacancyDetails(text),
               selectionProcess |-> extractSelectionProcess(text),
               qualification |-> extractQualification(text),
               state |-> extractState(text),
               links |-> extractLinks(text)])

(***************************************************************************)
(* The HTTP routes (registerRoutes): sessions, login and logout, and the   *)
(* rule-based parse endpoint.  A JavaScript value of a request body is a   *)
(* record with its typeof.                                                 *)
(***************************************************************************)
Undefined == [type |-> "undefined"]
String(t) == [type |-> "string", value |-> t]
Number(n) == [type |-> "number", number |-> n]

\* `!v`
not(v) ==
    \/ v.type = "undefined"
    \/ v.type = "string" /\ v.value = ""
    \/ v.type = "number" /\ v.number = 0

Clients == {"c1", "c2"}

ADMIN_USERNAME == "admin"
ADMIN_PASSWORD == "admin123"

\* bcrypt reads the first 72 bytes of the password
BcryptBytes == 72
bcryptHash(data) == [of |-> SubSeq(data, 1, minOf(Len(data), BcryptBytes))]
bcryptCompare(data, hash) == bcryptHash(data) = hash

\* a session as express-session creates it, and after destroy
NoSession == [isAdmin |-> <<>>]

NoRequest == [route |-> "none"]
\* no request of the client is between two awaits
Idle == [op |-> "idle"]
NoResponse == [status |-> 0]

InitRoutes ==
    /\ session = [c \in Clients |-> NoSession]
    /\ hashedPassword = <<>>
    /\ posts = {}
    /\ nextId = 1
    /\ pending = [c \in Clients |-> Idle]
    /\ request = NoRequest
    /\ response = NoResponse
    /\ invoked = <<>>

\* initializePasswordHash(), started when the module is loaded
InitializePasswordHash ==
    /\ hashedPassword = <<>>
    /\ hashedPassword' = <<bcryptHash(ADMIN_PASSWORD)>>
    /\ UNCHANGED <<rawText, items, output, pc, session, posts, nextId, pending, request,
                   response, invoked>>

\* a variant that lets every request through
requireAuth_open(c) == TRUE

\* `req.session?.isAdmin` of requireAuth
requireAuth(c) == session[c].isAdmin = <<TRUE>>

Unauthorized == [status |-> 401, error |-> "Unauthorized"]

\* POST /api/auth/login
Login(c, username, password) ==
    /\ request' = [route |-> "POST /api/auth/login", client |-> c,
                   body |-> [username |-> username, password |-> password]]
    /\ IF not(username) \/ not(password)
       THEN /\ response' = [status |-> 400, error |-> "Username and password required"]
            /\ UNCHANGED session
       ELSE IF password.type # "string" \/ hashedPassword = <<>>
       THEN \* bcrypt.compare rejects: the catch block answers
            /\ response' = [status |-> 500, error |-> "Authentication failed"]
            /\ UNCHANGED session
       ELSE IF username = String(ADMIN_USERNAME)
               /\ bcryptCompare(password.value, hashedPassword[1])
       THEN /\ session' = [session EXCEPT ![c].isAdmin = <<TRUE>>]
            /\ response' = [status |-> 200, success |-> TRUE]
       ELSE /\ response' = [status |-> 401, error |-> "Invalid credentials"]
            /\ UNCHANGED session
    /\ UNCHANGED <<rawText, items, output, pc, hashedPassword, posts, nextId, pending, invoked>>

\* POST /api/auth/logout
Logout(c) ==
    /\ request' = [route |-> "POST /api/auth/logout", client |-> c]
    /\ session' = [session EXCEPT ![c] = NoSession]
    /\ response' = [status |-> 200, success |-> TRUE]
    /\ UNCHANGED <<rawText, items, output, pc, hashedPassword, posts, nextId, pending, invoked>>

RouteMinLength == 50

\* a variant that tests the length of the text as it was sent
tooShort_untrimmed(text) == Len(text) < RouteMinLength

\* `rawText.trim().length < 50`
tooShort(text) == Len(trim(text)) < RouteMinLength

\* `!rawText || typeof rawText !== 'string' || rawText.trim().length < 50`
rejected(value) == not(value) \/ value.type # "string" \/ tooShort(value.value)

\* the handler's try block once the text is accepted
parsedResponse(parsedData) ==
    IF parsedData = Thrown
    THEN [status |-> 500, error |-> "Failed to parse job notification. Please try again."]
    ELSE [status |-> 200, parsedData |-> parsedData]

\* POST /api/parse-job-rules
ParseJobRules(c, value) ==
    /\ request' = [route |-> "POST /api/parse-job-rules", client |-> c,
                   body |-> [rawText |-> value]]
    /\ IF ~requireAuth(c)
       THEN response' = Unauthorized /\ invoked' = <<>>
       ELSE IF rejected(value)
       THEN /\ response' = [status |-> 400,
                            error |-> "Please provide job notification text (at least 50 characters)"]
            /\ invoked' = <<>>
       ELSE /\ response' = parsedResponse(parseJobNotification(value.value))
            /\ invoked' = <<value.value>>
    /\ UNCHANGED <<rawText, items, output, pc, session, hashedPassword, posts, nextId, pending>>

(***************************************************************************)
(* The routes that change the posts table.  A handler runs to its first    *)
(* await in one step; each query it awaits is a step of its own, so the    *)
(* requests of two clients interleave at the awaits.  A row keeps the id,  *)
(* title, slug and department of a post; the other columns play no part in *)
(* the routes.                                                             *)
(***************************************************************************)
\* new Date().getFullYear()
CurrentYear == "2026"

SlugMax == 60

\* /20\d{2}/
yearRe == Re(Cat(<<Lit("20"), Rep(In(Digit), 2, 2)>>), 0)
\* /[^\w\s-]/g,  /\s+/g  and  /-+/g
notSlugCharRe == Re(NotIn(Word \cup Space \cup {"-"}), 0)
spacesRe == Re(Ws1, 0)
hyphensRe == Re(Plus(In({"-"})), 0)

\* replace(/^-+|-+$/g, '')
RECURSIVE dropTrailingHyphens(_)
dropTrailingHyphens(t) ==
    IF t # "" /\ At(t, Len(t)) = "-" THEN dropTrailingHyphens(SubSeq(t, 1, Len(t) - 1)) ELSE t

trimHyphens(t) == dropTrailingHyphens(SubSeq(t, firstBad(In({"-"}), t, 1, Len(t)), Len(t)))

generateSlug(title) ==
    slice(trimHyphens(replaceAll(replaceAll(replaceAll(toLowerCase(title), notSlugCharRe, ""),
                                            spacesRe, "-"),
                                 hyphensRe, "-")),
          0, SlugMax)
    \o (IF ~match(title, yearRe).ok THEN "-" \o CurrentYear ELSE "")

\* what insertPostSchema and its partial() accept
optionalText(v) == v.type \in {"string", "undefined"}
validInsert(body) ==
    body.title.type = "string" /\ body.department.type = "string" /\ optionalText(body.slug)
validPartial(body) ==
    optionalText(body.title) /\ optionalText(body.department) /\ optionalText(body.slug)

\* `!data.slug && data.title` (and the same test written the other way round)
needsSlug(data) == not(data.slug) /\ ~not(data.title)

\* the request waits for the answer of storage.getPostBySlug(slug)
awaitingSlug(op, id, data) ==
    [op |-> op, id |-> id, data |-> data, step |-> "getPostBySlug",
     baseSlug |-> generateSlug(data.title.value), slug |-> generateSlug(data.title.value),
     counter |-> 1]

\* the request waits for storage.createPost or storage.updatePost
awaitingStore(op, id, data) == [op |-> op, id |-> id, data |-> data, step |-> "store"]

afterValidation(op, id, data) ==
    IF needsSlug(data) THEN awaitingSlug(op, id, data) ELSE awaitingStore(op, id, data)

\* a column value: <<>> is NULL
column(v) == IF v.type = "string" THEN <<v.value>> ELSE <<>>

MaxPosts == 2

\* POST /api/posts, to its first await
CreatePost(c, body) ==
    /\ pending[c] = Idle
    /\ nextId + Cardinality({d \in Clients : pending[d] # Idle /\ pending[d].op = "create"})
          <= MaxPosts
    /\ request' = [route |-> "POST /api/posts", client |-> c]
    /\ IF ~requireAuth(c)
       THEN response' = Unauthorized /\ UNCHANGED pending
       ELSE IF ~validInsert(body)
       THEN /\ response' = [status |-> 400, error |-> "Failed to create post"]
            /\ UNCHANGED pending
       ELSE /\ pending' = [pending EXCEPT ![c] = afterValidation("create", 0, body)]
            /\ UNCHANGED response
    /\ UNCHANGED <<rawText, items, output, pc, session, hashedPassword, posts, nextId, invoked>>

\* PUT /api/posts/:id, to its first await
UpdatePost(c, id, body) ==
    /\ pending[c] = Idle
    /\ request' = [route |-> "PUT /api/posts/:id", client |-> c]
    /\ IF ~requireAuth(c)
       THEN response' = Unauthorized /\ UNCHANGED pending
       ELSE IF parseInt(id).nan
       THEN /\ response' = [status |-> 400, error |-> "Invalid post ID"]
            /\ UNCHANGED pending
       ELSE IF ~validPartial(body)
       THEN /\ response' = [status |-> 400, error |-> "Failed to update post"]
            /\ UNCHANGED pending
       ELSE /\ pending' = [pending EXCEPT ![c] = afterValidation("update", parseInt(id).value, body)]
            /\ UNCHANGED response
    /\ UNCHANGED <<rawText, items, output, pc, session, hashedPassword, posts, nextId, invoked>>

\* ensureUniqueSlug: one answer of storage.getPostBySlug
GetPostBySlug(c) ==
    /\ pending[c] # Idle
    /\ pending[c].step = "getPostBySlug"
    /\ IF \E post \in posts : post.slug = <<pending[c].slug>>
       THEN pending' = [pending EXCEPT
                           ![c].slug = pending[c].baseSlug \o "-" \o numberText(pending[c].counter),
                           ![c].counter = @ + 1]
       ELSE pending' = [pending EXCEPT
                           ![c] = awaitingStore(pending[c].op, pending[c].id,
                                                [pending[c].data EXCEPT
                                                    !.slug = String(pending[c].slug)])]
    /\ UNCHANGED <<rawText, items, output, pc, session, hashedPassword, posts, nextId, request,
                   response, invoked>>

\* the row db.update(...).set(data) leaves: the columns data defines are set
updated(post, data) ==
    [id |-> post.id,
     title |-> IF data.title.type = "string" THEN data.title.value ELSE post.title,
     department |-> IF data.department.type = "string" THEN data.department.value
                    ELSE post.department,
     slug |-> IF data.slug.type = "string" THEN <<data.slug.value>> ELSE post.slug]

\* set() of an object without a defined column throws 'No values to set'
noValues(data) ==
    data.title.type = "undefined" /\ data.department.type = "undefined"
        /\ data.slug.type = "undefined"

\* storage.createPost or storage.updatePost, and the handler's answer
StorePost(c) ==
    /\ pending[c] # Idle
    /\ pending[c].step = "store"
    /\ pending' = [pending EXCEPT ![c] = Idle]
    /\ IF pending[c].op = "create"
       THEN /\ posts' = posts \cup {[id |-> nextId, title |-> pending[c].data.title.value,
                                      department |-> pending[c].data.department.value,
                                      slug |-> column(pending[c].data.slug)]}
            /\ nextId' = nextId + 1
            /\ response' = [status |-> 201, post |-> nextId]
       ELSE /\ UNCHANGED nextId
            /\ IF noValues(pending[c].data)
               THEN /\ response' = [status |-> 400, error |-> "Failed to update post"]
                    /\ UNCHANGED posts
               ELSE IF \E post \in posts : post.id = pending[c].id
               THEN /\ posts' = {IF post.id = pending[c].id THEN updated(post, pending[c].data)
                                  ELSE post : post \in posts}
                    /\ response' = [status |-> 200, post |-> pending[c].id]
               ELSE /\ response' = [status |-> 404, error |-> "Post not found"]
                    /\ UNCHANGED posts
    /\ UNCHANGED <<rawText, items, output, pc, session, hashedPassword, request, invoked>>

\* DELETE /api/posts/:id
DeletePost(c, id) ==
    /\ pending[c] = Idle
    /\ request' = [route |-> "DELETE /api/posts/:id", client |-> c]
    /\ IF ~requireAuth(c)
       THEN response' = Unauthorized /\ UNCHANGED posts
       ELSE IF parseInt(id).nan
       THEN /\ response' = [status |-> 400, error |-> "Invalid post ID"]
            /\ UNCHANGED posts
       ELSE /\ posts' = {post \in posts : post.id # parseInt(id).value}
            /\ response' = IF \E post \in posts : post.id = parseInt(id).value
                           THEN [status |-> 200, success |-> TRUE]
                           ELSE [status |-> 404, error |-> "Post not found"]
    /\ UNCHANGED <<rawText, items, output, pc, session, hashedPassword, nextId, pending, invoked>>

(***************************************************************************)
(* Input texts: concatenations of fragments.                               *)
(***************************************************************************)
RECURSIVE joinAll(_)
joinAll(fs) == IF fs = <<>> THEN "" ELSE Head(fs) \o joinAll(Tail(fs))

SeqsUpTo(A, n) == UNION {[1..k -> A] : k \in 0..n}

TypeFrags == {"Admit Card ", "HALL TICKET ", "call letter ", "Result ", "Download ",
              "declared ", "Layout ", "Answer Key ", "Admission ", "SSC Clerk "}

TypeTexts == {joinAll(fs) : fs \in SeqsUpTo(TypeFrags, MaxTypeFrags)}

(***************************************************************************)
(* Specification SpecType: detectType applied to a text.                   *)
(***************************************************************************)
InitType ==
    /\ rawText \in TypeTexts
    /\ items = <<>>
    /\ output = NoOutput
    /\ pc = "idle"
    /\ InitRoutes

CallDetectType ==
    /\ pc = "idle"
    /\ output' = [kind |-> "type", type |-> detectType(rawText)]
    /\ pc' = "done"
    /\ UNCHANGED <<rawText, items, web, invoked>>

NextType == CallDetectType

SpecType == InitType /\ [][NextType]_vars

(***************************************************************************)
(* Specification SpecParse: the exported parseJobNotification applied to  *)
(* a text.                                                                 *)
(***************************************************************************)
ParseFrags == {"SSC Clerk Recruitment 2026\n", "LAST DATE: 15/03/2026\n",
               "General: 18 to 27 years\n", "Height: 165 cm\n", "Physical Standard\n",
               "Graduate Clerk : 7\n", "https://ssc.nic.in/apply\n"}

ParseTexts == {joinAll(fs) : fs \in SeqsUpTo(ParseFrags, MaxParseFrags)}

InitParse ==
    /\ rawText \in ParseTexts
    /\ items = <<>>
    /\ output = NoOutput
    /\ pc = "idle"
    /\ InitRoutes

CallParseJobNotification ==
    /\ pc = "idle"
    /\ output' = parseJobNotification(rawText)
    /\ pc' = "done"
    /\ UNCHANGED <<rawText, items, web, invoked>>

NextParse == CallParseJobNotification

SpecParse == InitParse /\ [][NextParse]_vars

(***************************************************************************)
(* Specification SpecLinks: extractLinks applied to a text.                *)
(***************************************************************************)
LinkFrags == {"https://ssc.nic.in/apply-online ", "https://ssc.nic.in/notification.pdf ",
              "https://ssc.nic.in/ ", "http://x.in/Admit-Result ",
              "https://y.gov.in/REGISTRATION ", "(http://x.in/answer-key) ",
              "see http://x.in/home ", "HTTPS://x.in/result.pdf "}

LinkTexts == {joinAll(fs) : fs \in SeqsUpTo(LinkFrags, MaxLinkFrags)}

InitLinks ==
    /\ rawText \in LinkTexts
    /\ items = <<>>
    /\ output = NoOutput
    /\ pc = "idle"
    /\ InitRoutes

CallExtractLinks ==
    /\ pc = "idle"
    /\ output' = [kind |-> "links", links |-> extractLinks(rawText)]
    /\ pc' = "done"
    /\ UNCHANGED <<rawText, items, web, invoked>>

NextLinks == CallExtractLinks

SpecLinks == InitLinks /\ [][NextLinks]_vars

(***************************************************************************)
(* Specification SpecSum: the total-posts reduction applied to a list of   *)
(* vacancy entries.                                                        *)
(***************************************************************************)
PostTexts == {"100", "50", "7", "007", "0", "abc", ""}

VacancyEntries == {[postName |-> "Clerk", totalPost |-> t, eligibility |-> ""] : t \in PostTexts}

InitSum ==
    /\ rawText = ""
    /\ items \in SeqsUpTo(VacancyEntries, MaxEntries)
    /\ output = NoOutput
    /\ pc = "idle"
    /\ InitRoutes

CallTotalPosts ==
    /\ pc = "idle"
    /\ output' = [kind |-> "total", totalPosts |-> totalPostsOf(items)]
    /\ pc' = "done"
    /\ UNCHANGED <<rawText, items, web, invoked>>

NextSum == CallTotalPosts

SpecSum == InitSum /\ [][NextSum]_vars

(***************************************************************************)
(* Specification SpecFees: extractFees applied to a text.                  *)
(***************************************************************************)
MaxFeeFrags == 2

FeeFrags == {"General: Rs. 1,000\n", "SC/ST: Nil\n", "Female - EXEMPTED\n",
             "OBC ₹ 1,00,000/-\n", "Ex-Servicemen: nil\n", "PH: Rs 250\n",
             "EWS: ,\n", "Application Fee\n"}

FeeTexts == {joinAll(fs) : fs \in SeqsUpTo(FeeFrags, MaxFeeFrags)}

InitFees ==
    /\ rawText \in FeeTexts
    /\ items = <<>>
    /\ output = NoOutput
    /\ pc = "idle"
    /\ InitRoutes

CallExtractFees ==
    /\ pc = "idle"
    /\ output' = [kind |-> "fees", threw |-> extractFees(rawText).threw,
                  applicationFee |-> extractFees(rawText).out]
    /\ pc' = "done"
    /\ UNCHANGED <<rawText, items, web, invoked>>

NextFees == CallExtractFees

SpecFees == InitFees /\ [][NextFees]_vars

(***************************************************************************)
(* Specification SpecRules: logins, logouts and requests to the rule-based *)
(* parse endpoint, in any order.                                           *)
(***************************************************************************)
Usernames == {Undefined, String("admin"), String("guest")}
Passwords == {Undefined, String("admin123"), String("Admin123"), Number(123)}

\* 49 characters, and 50 with the full stop
ShortNotice == "SSC Clerk Recruitment 2026. Last Date: 15/03/2026"

RawTexts == {Undefined, Number(0), Number(12345), String(""), String("SSC Clerk"),
            String(ShortNotice), String("  " \o ShortNotice \o "   \n"),
            String(ShortNotice \o ".")}

InitRules ==
    /\ rawText = ""
    /\ items = <<>>
    /\ output = NoOutput
    /\ pc = "idle"
    /\ InitRoutes

NextRules ==
    \/ InitializePasswordHash
    \/ \E c \in Clients, username \in Usernames, password \in Passwords :
           Login(c, username, password)
    \/ \E c \in Clients : Logout(c)
    \/ \E c \in Clients, value \in RawTexts : ParseJobRules(c, value)

SpecRules == InitRules /\ [][NextRules]_vars

(***************************************************************************)
(* Specification SpecScenario: parseJobNotification applied to the         *)
(* one-line notification of seven sentences, and to that line with some of *)
(* its sentences left out.                                                 *)
(***************************************************************************)
Sentences == <<"SSC CGL 2026 Recruitment Notification.", "Staff Selection Commission.",
               "Last Date: 15/03/2026.", "General: Rs. 100.", "Age Limit: 18 to 27 years.",
               "Total Post: 5000.", "Selection Process: Written Exam, Interview.">>

\* the sentences chosen, in their order, with one space between them
RECURSIVE lineOf(_, _)
lineOf(chosen, k) ==
    IF k > Len(Sentences) THEN ""
    ELSE IF k \notin chosen THEN lineOf(chosen, k + 1)
    ELSE IF \E later \in chosen : later > k THEN Sentences[k] \o " " \o lineOf(chosen, k + 1)
    ELSE Sentences[k]

WholeLine == lineOf(1..Len(Sentences), 1)

ScenarioTexts == {lineOf(chosen, 1) : chosen \in SUBSET (1..Len(Sentences))}

InitScenario ==
    /\ rawText \in ScenarioTexts
    /\ items = <<>>
    /\ output = NoOutput
    /\ pc = "idle"
    /\ InitRoutes

NextScenario == CallParseJobNotification

SpecScenario == InitScenario /\ [][NextScenario]_vars

(***************************************************************************)
(* Specification SpecPosts: logins, logouts and requests to the routes     *)
(* that create, update and delete posts, in any order.                     *)
(***************************************************************************)
Credentials == {[username |-> String("admin"), password |-> String("admin123")],
                [username |-> String("admin"), password |-> String("admin")],
                [username |-> String("guest"), password |-> String("admin123")]}

PostBodies == {[title |-> String("SSC CGL 2026"), department |-> String("SSC"),
                slug |-> Undefined],
               [title |-> String("SSC Clerk"), department |-> String("SSC"),
                slug |-> String("clerk")],
               [title |-> Undefined, department |-> Undefined, slug |-> Undefined]}

PostIds == {"1", "abc"}

InitPosts ==
    /\ rawText = ""
    /\ items = <<>>
    /\ output = NoOutput
    /\ pc = "idle"
    /\ InitRoutes

NextPosts ==
    \/ InitializePasswordHash
    \/ \E c \in Clients, login \in Credentials : Login(c, login.username, login.password)
    \/ \E c \in Clients : Logout(c)
    \/ \E c \in Clients, body \in PostBodies : CreatePost(c, body)
    \/ \E c \in Clients, id \in PostIds, body \in PostBodies : UpdatePost(c, id, body)
    \/ \E c \in Clients, id \in PostIds : DeletePost(c, id)
    \/ \E c \in Clients : GetPostBySlug(c)
    \/ \E c \in Clients : StorePost(c)

SpecPosts == InitPosts /\ [][NextPosts]_vars

(***************************************************************************)
(* Specification SpecSection: extractSection applied to a text and a list  *)
(* of headers.  The texts put headers, a next-section marker and runs of   *)
(* fee lines of 450, 1100 and 1600 characters one after the other.         *)
(***************************************************************************)
MaxSectionFrags == 3

FeeLine == "General: Rs. 100, OBC: Rs. 50. "

RECURSIVE repeated(_, _)
repeated(t, n) == IF n = 0 THEN "" ELSE t \o repeated(t, n - 1)

\* n characters of fee lines
feeLines(n) == SubSeq(repeated(FeeLine, n \div Len(FeeLine) + 1), 1, n)

SectionFrags == {"Application Fee", "exam fee", "\nIMPORTANT DATES:\n", feeLines(450),
                 feeLines(1100), feeLines(1600)}

SectionTexts == {joinAll(fs) : fs \in SeqsUpTo(SectionFrags, MaxSectionFrags)}

HeaderLists == {<<"Application Fee", "APPLICATION FEE", "Exam Fee", "EXAM FEE">>,
                <<"Exam Fee", "Application Fee">>}

InitSection ==
    /\ rawText \in SectionTexts
    /\ items \in HeaderLists
    /\ output = NoOutput
    /\ pc = "idle"
    /\ InitRoutes

CallExtractSection ==
    /\ pc = "idle"
    /\ output' = [kind |-> "section", section |-> extractSection(rawText, items)]
    /\ pc' = "done"
    /\ UNCHANGED <<rawText, items, web, invoked>>

NextSection == CallExtractSection

SpecSection == InitSection /\ [][NextSection]_vars

(***************************************************************************)
(* Specification SpecSearch: parseJobNotification applied to texts of up   *)
(* to three lines: a line the extractors read, a section header, and       *)
(* another such line.                                                      *)
(***************************************************************************)
ExamDateLine == "Exam Date: 20/04/2026\n"
FemaleFeeLine == "Female: Rs. 250\n"
ObcAgeLine == "OBC: 21 to 30\n"
ClerkLine == "Clerk: 40 Post\n"
TotalLine == "Total Vacancy: 900\n"
InterviewLine == "Interview\n"

ReadLines == {ExamDateLine, FemaleFeeLine, ObcAgeLine, ClerkLine, TotalLine, InterviewLine}

HeaderLines == {"Important Dates\n", "APPLICATION FEE\n", "Age Limit\n", "Vacancy Details\n",
                "Mode of Selection\n"}

SearchTexts ==
    {joinAll(<<a, h, b>>) : a \in ReadLines \cup {""}, h \in HeaderLines \cup {""},
                            b \in ReadLines \cup {""}}

InitSearch ==
    /\ rawText \in SearchTexts
    /\ items = <<>>
    /\ output = NoOutput
    /\ pc = "idle"
    /\ InitRoutes

NextSearch == CallParseJobNotification

SpecSearch == InitSearch /\ [][NextSearch]_vars

(***************************************************************************)
(* Specification SpecDates: extractDates applied to a text.                *)
(***************************************************************************)
MaxDateFrags == 3

LongLabel == "Document verification of all the selected applicants at centre"

DateFrags == {"Result: 10/06/2026\n", "exam date: 20/04/2026\n", "Due: 01/03/2026\n",
              "Counselling Round: 05 July 2026\n", "COUNSELLING ROUND: 06/07/2026\n",
              SubSeq(LongLabel, 1, 49) \o ": 07/08/2026\n",
              SubSeq(LongLabel, 1, 50) \o ": 08/08/2026\n", "Important Dates\n"}

DateTexts == {joinAll(fs) : fs \in SeqsUpTo(DateFrags, MaxDateFrags)}

InitDates ==
    /\ rawText \in DateTexts
    /\ items = <<>>
    /\ output = NoOutput
    /\ pc = "idle"
    /\ InitRoutes

CallExtractDates ==
    /\ pc = "idle"
    /\ output' = [kind |-> "dates", threw |-> extractDates(rawText).threw,
                  importantDates |-> extractDates(rawText).out]
    /\ pc' = "done"
    /\ UNCHANGED <<rawText, items, web, invoked>>

NextDates == CallExtractDates

SpecDates == InitDates /\ [][NextDates]_vars

(***************************************************************************)
(* Specification SpecAges: extractAgeLimit applied to a text.              *)
(***************************************************************************)
MaxAgeFrags == 3

AgeFrags == {"General: 18 to 27\n", "OBC maximum 30\n", "EWS: relaxation as per rules\n",
             "SC/ST: 18-32\n", "Minimum Age: 21 Maximum Age: 30\n", "Age Limit\n",
             "Age 20 to 25 years\n"}

AgeTexts == {joinAll(fs) : fs \in SeqsUpTo(AgeFrags, MaxAgeFrags)}

InitAges ==
    /\ rawText \in AgeTexts
    /\ items = <<>>
    /\ output = NoOutput
    /\ pc = "idle"
    /\ InitRoutes

CallExtractAgeLimit ==
    /\ pc = "idle"
    /\ output' = [kind |-> "ages", ageLimit |-> extractAgeLimit(rawText)]
    /\ pc' = "done"
    /\ UNCHANGED <<rawText, items, web, invoked>>

NextAges == CallExtractAgeLimit

SpecAges == InitAges /\ [][NextAges]_vars

(***************************************************************************)
(* Specification SpecVacancy: parseJobNotification applied to texts made   *)
(* of lines about posts and totals.                                        *)
(***************************************************************************)
MaxVacancyFrags == 3

VacancyFrags == {"Total Post: 1,500\n", "Total Vacancies -\n2,000\n",
                 "Recruitment for Junior Clerk\n", "Clerk: 1,200 Post\n", "Vacancy Details\n",
                 "Posts - ,\n", "Sub - 7\n"}

VacancyTexts == {joinAll(fs) : fs \in SeqsUpTo(VacancyFrags, MaxVacancyFrags)}

InitVacancy ==
    /\ rawText \in VacancyTexts
    /\ items = <<>>
    /\ output = NoOutput
    /\ pc = "idle"
    /\ InitRoutes

NextVacancy == CallParseJobNotification

SpecVacancy == InitVacancy /\ [][NextVacancy]_vars

(***************************************************************************)
(* Specification SpecSelection: parseJobNotification applied to texts that *)
(* name stages of selection.                                               *)
(***************************************************************************)
MaxSelectionFrags == 3

SelectionFrags == {"Interview\n", "WRITTEN EXAM\n", "competitive\n",
                   "Skill Test and Typing Test\n", "Medical  Test\n", "Selection Process\n"}

SelectionTexts == {joinAll(fs) : fs \in SeqsUpTo(SelectionFrags, MaxSelectionFrags)}

InitSelection ==
    /\ rawText \in SelectionTexts
    /\ items = <<>>
    /\ output = NoOutput
    /\ pc = "idle"
    /\ InitRoutes

NextSelection == CallParseJobNotification

SpecSelection == InitSelection /\ [][NextSelection]_vars

(***************************************************************************)
(* Specification SpecTitle: parseJobNotification applied to texts whose    *)
(* lines do or do not qualify as a title.                                  *)
(***************************************************************************)
MaxTitleFrags == 3

TenLines == "a\nb\nc\nd\ne\nf\ng\nh\ni\nj\n"

TitleFrags == {"  **SSC Recruitment 2026**\n", feeLines(140) \o "Notification for Clerk 2026\n",
               "\n   \n", TenLines, "Online\nForm 2025\n", feeLines(120) \o "\n",
               "Indian Navy\n"}

TitleTexts == {joinAll(fs) : fs \in SeqsUpTo(TitleFrags, MaxTitleFrags)}

InitTitle ==
    /\ rawText \in TitleTexts
    /\ items = <<>>
    /\ output = NoOutput
    /\ pc = "idle"
    /\ InitRoutes

NextTitle == CallParseJobNotification

SpecTitle == InitTitle /\ [][NextTitle]_vars

(***************************************************************************)
(* Specification SpecDepartment: parseJobNotification applied to texts     *)
(* that name, or do not name, a department.                                *)
(***************************************************************************)
MaxDepartmentFrags == 3

DepartmentFrags == {"Railway Recruitment Board 2026\n", "Department: Posts\n",
                    "Staff Selection Commission.\n", "Indian Navy\n",
                    repeated("Very ", 25) \o "Large Bank\n"}

DepartmentTexts == {joinAll(fs) : fs \in SeqsUpTo(DepartmentFrags, MaxDepartmentFrags)}

InitDepartment ==
    /\ rawText \in DepartmentTexts
    /\ items = <<>>
    /\ output = NoOutput
    /\ pc = "idle"
    /\ InitRoutes

NextDepartment == CallParseJobNotification

SpecDepartment == InitDepartment /\ [][NextDepartment]_vars

(***************************************************************************)
(* Specification SpecState: parseJobNotification applied to texts that     *)
(* name states.                                                            *)
(***************************************************************************)
MaxStateFrags == 3

StateFrags == {"Bihar\n", "UPSC\n", "Madhya Pradesh\n", "MP Police\n", "ALL INDIA\n",
               "Central Government job\n", "bihar\n"}

StateTexts == {joinAll(fs) : fs \in SeqsUpTo(StateFrags, MaxStateFrags)}

InitState ==
    /\ rawText \in StateTexts
    /\ items = <<>>
    /\ output = NoOutput
    /\ pc = "idle"
    /\ InitRoutes

NextState == CallParseJobNotification

SpecState == InitState /\ [][NextState]_vars

(***************************************************************************)
(* Specification SpecInfo: parseJobNotification applied to texts that      *)
(* state, or do not state, a department, posts and closing dates.          *)
(***************************************************************************)
MaxInfoFrags == 3

InfoFrags == {"Railway Recruitment Board 2026\n", "Staff Selection Commission.\n",
              "Last Date: 15/03/2026\n", "last date of form: 01/04/2026\n",
              "Closing Date: 20/03/2026\n", "Clerk: 40 Post\n", "Posts - ,\n"}

InfoTexts == {joinAll(fs) : fs \in SeqsUpTo(InfoFrags, MaxInfoFrags)}

InitInfo ==
    /\ rawText \in InfoTexts
    /\ items = <<>>
    /\ output = NoOutput
    /\ pc = "idle"
    /\ InitRoutes

NextInfo == CallParseJobNotification

SpecInfo == InitInfo /\ [][NextInfo]_vars

(***************************************************************************)
(* Specification SpecSlugs: logins and create-post requests that supply a  *)
(* title and no slug, their awaits interleaved in any order.               *)
(***************************************************************************)
TitledBodies == {[title |-> String("SSC CGL 2026"), department |-> String("SSC"),
                  slug |-> Undefined],
                 [title |-> String("SSC Clerk"), department |-> String("SSC"),
                  slug |-> Undefined]}

NextSlugs ==
    \/ InitializePasswordHash
    \/ \E c \in Clients, login \in Credentials : Login(c, login.username, login.password)
    \/ \E c \in Clients, body \in TitledBodies : CreatePost(c, body)
    \/ \E c \in Clients : GetPostBySlug(c)
    \/ \E c \in Clients : StorePost(c)

SpecSlugs == InitPosts /\ [][NextSlugs]_vars

(***************************************************************************)
(* Properties.                                                             *)
(***************************************************************************)
has(word) == includes(toLowerCase(rawText), word)

\* C1: detectType returns the value of the first true rule in the order
\* admit-card, result, answer-key, admission, job; a text with both "admit
\* card" and "admission" is an admit-card, and the value is one of the five
\* literals.
C1_DetectTypeFirstTrueRule ==
    pc = "done" =>
        LET admitCard == has("admit card") \/ has("hall ticket") \/ has("call letter")
            result == has("result") /\ (has("download") \/ has("declared") \/ has("out"))
            answerKey == has("answer key")
            admission == has("admission") /\ ~has("admit card")
        IN /\ output.type \in {"job", "admit-card", "result", "answer-key", "admission"}
           /\ admitCard => output.type = "admit-card"
           /\ ~admitCard /\ result => output.type = "result"
           /\ ~admitCard /\ ~result /\ answerKey => output.type = "answer-key"
           /\ ~admitCard /\ ~result /\ ~answerKey /\ admission => output.type = "admission"
           /\ ~admitCard /\ ~result /\ ~answerKey /\ ~admission => output.type = "job"
           /\ has("admit card") /\ has("admission") => output.type = "admit-card"

C1_AdmitCardBeatsAdmission ==
    /\ pc = "done"
    /\ rawText = "Admission Admit Card "
    /\ output.type = "admit-card"

isSequence(x) == DOMAIN x = 1..Len(x)

listFields == {"vacancyDetails", "applicationFee", "importantDates", "ageLimit",
               "selectionProcess", "physicalEligibility"}

\* C2: every list field of the record parseJobNotification returns is present
\* and is a sequence (possibly empty) of entries, never undefined.
C2_ListFieldsPresent ==
    pc = "done" =>
        /\ output.kind = "record"
        /\ \A f \in listFields : output[f] # <<>> /\ isSequence(output[f][1])
        /\ \A i \in 1..Len(output.vacancyDetails[1]) :
              DOMAIN output.vacancyDetails[1][i] = {"postName", "totalPost", "eligibility"}
        /\ \A i \in 1..Len(output.applicationFee[1]) :
              DOMAIN output.applicationFee[1][i] = {"category", "fee"}
        /\ \A i \in 1..Len(output.importantDates[1]) :
              DOMAIN output.importantDates[1][i] = {"label", "date"}
        /\ \A i \in 1..Len(output.ageLimit[1]) :
              DOMAIN output.ageLimit[1][i] = {"category", "minAge", "maxAge"}
        /\ \A i \in 1..Len(output.physicalEligibility[1]) :
              DOMAIN output.physicalEligibility[1][i] = {"criteria", "male", "female"}

C2_EmptyTextGivesEmptyLists ==
    /\ pc = "done"
    /\ rawText = ""
    /\ output.kind = "record"
    /\ \A f \in listFields : output[f] = <<(<<>>)>>

optionalFields == {"qualification", "state", "eligibilityDetails", "applyOnlineUrl",
                   "admitCardUrl", "resultUrl", "answerKeyUrl", "notificationUrl",
                   "officialWebsiteUrl"}

\* C3: every optional string field of the record (qualification, state,
\* eligibilityDetails and the six URL fields) is absent or a non-empty trimmed
\* string, never the empty string.
C3_OptionalFieldsNeverEmpty ==
    pc = "done" /\ output.kind = "record" =>
        \A f \in optionalFields :
            output[f] = <<>> \/ (output[f][1] # "" /\ trim(output[f][1]) = output[f][1])

\* C4: vacancyDetails holds no two entries with the same postName.
C4_VacancyPostNamesUnique ==
    pc = "done" /\ output.kind = "record" =>
        \A i, j \in 1..Len(output.vacancyDetails[1]) :
            output.vacancyDetails[1][i].postName = output.vacancyDetails[1][j].postName
                => i = j

categoriesUnique(list) ==
    \A i, j \in 1..Len(list) : list[i].category = list[j].category => i = j

labelsUnique(dates) ==
    \A i, j \in 1..Len(dates) :
        toLowerCase(dates[i].label) = toLowerCase(dates[j].label) => i = j

holds(list, entry) == \E i \in 1..Len(list) : list[i] = entry

ageSearchText == orText(extractSection(rawText, <<"Age Limit", "AGE LIMIT", "Age Limits">>),
                        rawText)

dateSearchText ==
    orText(extractSection(rawText, <<"Important Dates", "IMPORTANT DATES", "Important Date">>),
           rawText)

\* C5: applicationFee and ageLimit hold no two entries with the same category,
\* importantDates no two entries whose labels are equal ignoring case, and the
\* entry kept for a key is the first one produced for it: the minimum/maximum
\* match before the range match before the category patterns for the ages, a
\* fixed template before a line of the text for the dates.
C5_ListKeysUnique ==
    pc = "done" /\ output.kind = "record" =>
        /\ categoriesUnique(output.applicationFee[1])
        /\ categoriesUnique(output.ageLimit[1])
        /\ labelsUnique(output.importantDates[1])
        /\ LET single == match(ageSearchText, singleAgeRe)
               range == match(ageSearchText, rangeRe)
               first == IF single.ok THEN single ELSE range
           IN first.ok =>
                  output.ageLimit[1][1] = [category |-> "General", minAge |-> first.g[1][1],
                                           maxAge |-> first.g[2][1]]
        /\ \A k \in 1..Len(datePatterns) :
              LET m == match(dateSearchText, datePatterns[k].regex)
              IN m.ok => holds(output.importantDates[1],
                               [label |-> datePatterns[k].label, date |-> trim(m.g[1][1])])

C5_RepeatedKeysKeptOnce ==
    /\ pc = "done"
    /\ rawText = "General: 18 to 27 years\nLAST DATE: 15/03/2026\n"
    /\ output.ageLimit[1] = <<[category |-> "General", minAge |-> "18", maxAge |-> "27"]>>
    /\ output.importantDates[1] = <<[label |-> "Last Date", date |-> "15/03/2026"]>>
    /\ Len(output.applicationFee[1]) = 2

recordFields == listFields \cup optionalFields
                    \cup {"kind", "title", "department", "type", "shortInfo"}

\* C7: parseJobNotification raises for no input text, the empty text and a
\* text in which nothing matches included: a complete record is returned, and
\* what is not found is an empty sequence, an empty string or an absent field.
C7_NeverRaises ==
    pc = "done" =>
        /\ output # Thrown
        /\ output.kind = "record"
        /\ DOMAIN output = recordFields
        /\ output.title # ""
        /\ rawText = "" =>
              /\ output.title = "Government Job Notification"
              /\ output.department = "Government of India"
              /\ output.type = "job"
              /\ \A f \in listFields : output[f] = <<(<<>>)>>
              /\ \A f \in optionalFields : output[f] = <<>> \/ output[f] = <<"">>

C7_EmptyTextParsed ==
    /\ pc = "done"
    /\ rawText = ""
    /\ output.kind = "record"
    /\ output.shortInfo = "Government of India has released notification for Government Job Notification."

\* C8: physicalEligibility is empty whenever the text holds none of the header
\* phrases "Physical Eligibility", "Physical Standard", "Physical Test" (in any
\* case), whatever height, chest or weight figures the text holds.
C8_PhysicalNeedsHeader ==
    pc = "done" /\ output.kind = "record"
        /\ ~has("physical eligibility") /\ ~has("physical standard") /\ ~has("physical test")
    => output.physicalEligibility = <<(<<>>)>>

C8_HeightWithoutHeader ==
    /\ pc = "done"
    /\ rawText = "Height: 165 cm\n"
    /\ output.kind = "record"
    /\ output.physicalEligibility = <<(<<>>)>>

bucketNames == <<"applyOnlineUrl", "notificationUrl", "admitCardUrl", "resultUrl",
                 "answerKeyUrl", "officialWebsiteUrl">>

bucketKeywords == <<{"apply", "registration"}, {"notification", "pdf"},
                    {"admit", "hall-ticket"}, {"result"}, {"answer", "key"},
                    {"gov.in", "nic.in"}>>

inBucket(url, b) == \E word \in bucketKeywords[b] : includes(toLowerCase(url), word)

\* the first bucket in the order whose keyword the URL holds, or 0
bucketOf(url) ==
    IF \E b \in 1..6 : inBucket(url, b)
    THEN CHOOSE b \in 1..6 : inBucket(url, b) /\ \A a \in 1..(b - 1) : ~inBucket(url, a)
    ELSE 0

applyExample == "https://ssc.nic.in/apply-online"
notificationExample == "https://ssc.nic.in/notification.pdf"

\* C9: each bucket of extractLinks holds the first URL of the document, in
\* document order, whose first matching bucket in the order apply/registration,
\* notification/pdf, admit/hall-ticket, result, answer/key, gov.in/nic.in it
\* is, and is absent when there is none; for a text with the URLs
\* https://ssc.nic.in/apply-online and https://ssc.nic.in/notification.pdf the
\* first is applyOnlineUrl, the second notificationUrl and officialWebsiteUrl
\* is absent.
C9_LinksFirstBucketFirstUrl ==
    pc = "done" =>
        LET allUrls == allUrlsOf(rawText)
        IN /\ \A b \in 1..6 :
                 LET mine == {i \in 1..Len(allUrls) : bucketOf(allUrls[i]) = b}
                 IN output.links[bucketNames[b]] =
                        IF mine = {} THEN <<>>
                        ELSE <<allUrls[CHOOSE i \in mine : \A j \in mine : i <= j]>>
           /\ {allUrls[i] : i \in 1..Len(allUrls)} = {applyExample, notificationExample} =>
                 /\ output.links.applyOnlineUrl = <<applyExample>>
                 /\ output.links.notificationUrl = <<notificationExample>>
                 /\ output.links.officialWebsiteUrl = <<>>

C9_ExampleLinks ==
    /\ pc = "done"
    /\ rawText = applyExample \o " " \o notificationExample \o " "
    /\ output.links.applyOnlineUrl = <<applyExample>>
    /\ output.links.notificationUrl = <<notificationExample>>
    /\ output.links.officialWebsiteUrl = <<>>

allDigits(t) == t # "" /\ \A i \in 1..Len(t) : At(t, i) \in Digit

RECURSIVE zeros(_)
zeros(n) == IF n = 0 THEN "" ELSE "0" \o zeros(n - 1)

\* the integer a text of digits writes; 0 for any other text
integerValue(t) ==
    IF allDigits(t)
    THEN CHOOSE n \in 0..(10 ^ Len(t) - 1) :
             \E z \in 0..(Len(t) - 1) : t = zeros(z) \o numberText(n)
    ELSE 0

RECURSIVE sumOfPosts(_)
sumOfPosts(entries) ==
    IF entries = <<>> THEN 0
    ELSE integerValue(Head(entries).totalPost) + sumOfPosts(Tail(entries))

\* C10: the total-posts figure is the sum over the vacancy entries of the
\* integer value of totalPost, an entry whose totalPost is not numeric ("abc",
\* the empty string) counting 0; the values "100", "50", "abc" total 150.
C10_TotalPostsIsSum ==
    pc = "done" => output.totalPosts = sumOfPosts(items)

C10_ExampleTotal ==
    /\ pc = "done"
    /\ Len(items) = 3
    /\ items[1].totalPost = "100" /\ items[2].totalPost = "50" /\ items[3].totalPost = "abc"
    /\ output.totalPosts = 150

feeSearchText ==
    orText(extractSection(rawText, <<"Application Fee", "APPLICATION FEE", "Exam Fee",
                                     "EXAM FEE">>), rawText)

\* the text without its commas, one character at a time
RECURSIVE withoutCommas(_)
withoutCommas(t) ==
    IF t = "" THEN ""
    ELSE (IF At(t, 1) = "," THEN "" ELSE At(t, 1)) \o withoutCommas(SubSeq(t, 2, Len(t)))

\* the fee the claim states for a capture
statedFee(captured) ==
    IF toLowerCase(captured) \in {"nil", "exempted"} THEN "Nil"
    ELSE "₹" \o withoutCommas(captured) \o "/-"

isAmountFee(fee) ==
    /\ Len(fee) >= 3
    /\ At(fee, 1) = "₹"
    /\ SubSeq(fee, Len(fee) - 1, Len(fee)) = "/-"
    /\ \A i \in 2..(Len(fee) - 2) : At(fee, i) \in Digit

\* C11: every fee of applicationFee is 'Nil' or the rupee sign, digits and
\* '/-'; the entry of a category whose pattern matches carries 'Nil' when the
\* capture is nil or exempted in any letter case and otherwise the capture
\* with its commas removed between the rupee sign and '/-'.  'General: Rs.
\* 1,000' gives fee 1000 under 'General/EWS/OBC' and 'General', 'SC/ST: Nil'
\* gives {SC/ST, Nil}.
C11_FeesNormalized ==
    pc = "done" =>
        /\ \A i \in 1..Len(output.applicationFee) :
              output.applicationFee[i].fee = "Nil" \/ isAmountFee(output.applicationFee[i].fee)
        /\ \A k \in 1..Len(feePatterns) :
              LET m == match(feeSearchText, feePatterns[k].regex)
              IN m.ok =>
                    holds(output.applicationFee,
                          [category |-> feePatterns[k].category, fee |-> statedFee(m.g[1][1])])
        /\ includes(feeSearchText, "General: Rs. 1,000") =>
              /\ holds(output.applicationFee,
                       [category |-> "General/EWS/OBC", fee |-> "₹1000/-"])
              /\ holds(output.applicationFee, [category |-> "General", fee |-> "₹1000/-"])
        /\ includes(feeSearchText, "SC/ST: Nil") =>
              holds(output.applicationFee, [category |-> "SC/ST", fee |-> "Nil"])

C11_ExampleFees ==
    /\ pc = "done"
    /\ rawText = "General: Rs. 1,000\nSC/ST: Nil\n"
    /\ holds(output.applicationFee, [category |-> "General/EWS/OBC", fee |-> "₹1000/-"])
    /\ holds(output.applicationFee, [category |-> "SC/ST", fee |-> "Nil"])

parseRequested == request.route = "POST /api/parse-job-rules"

\* the rawText of the request is a string of trimmed length 50 or more
longText(value) == value.type = "string" /\ Len(trim(value.value)) >= 50

\* C12 (as stated): the parse endpoint calls parseJobNotification only for a
\* rawText that is a string of trimmed length at least 50, and answers 400
\* without calling it when rawText is missing, not a string or shorter; the
\* extractor accepts a text of any length.
C12_ShortTextAnswered400 ==
    parseRequested =>
        /\ invoked # <<>> => longText(request.body.rawText)
        /\ ~longText(request.body.rawText) => response.status = 400 /\ invoked = <<>>
        /\ request.body.rawText.type = "string" /\ ~longText(request.body.rawText) =>
              parseJobNotification(request.body.rawText.value).kind = "record"

\* C12 (amended): for a request of a session with isAdmin set, the endpoint
\* calls parseJobNotification exactly when rawText is a string of trimmed
\* length at least 50 and answers 400 without calling it otherwise; a request
\* of a session without isAdmin is answered 401 without calling it, whatever
\* rawText is; the extractor accepts a text of any length.
C12_ShortTextAnswered400WhenAdmin ==
    parseRequested =>
        /\ invoked # <<>> <=>
              longText(request.body.rawText) /\ session[request.client].isAdmin = <<TRUE>>
        /\ invoked # <<>> => invoked = <<request.body.rawText.value>> /\ response.status = 200
        /\ session[request.client].isAdmin = <<TRUE>> /\ ~longText(request.body.rawText) =>
              response.status = 400
        /\ session[request.client].isAdmin # <<TRUE>> => response.status = 401
        /\ request.body.rawText.type = "string" /\ ~longText(request.body.rawText) =>
              parseJobNotification(request.body.rawText.value).kind = "record"

C12_PaddedTextRejected ==
    /\ parseRequested
    /\ session[request.client].isAdmin = <<TRUE>>
    /\ request.body.rawText = String("  " \o ShortNotice \o "   \n")
    /\ response.status = 400
    /\ invoked = <<>>

\* C13: for the one-line notification of seven sentences the title returned
\* by parseJobNotification contains 'SSC CGL 2026 Recruitment Notification'.
C13_ScenarioTitle ==
    pc = "done" /\ rawText = WholeLine =>
        includes(output.title, "SSC CGL 2026 Recruitment Notification")

\* C14: for the one-line notification of seven sentences parseJobNotification
\* returns type 'job', a department containing 'Staff Selection Commission' (or
\* the default 'Government of India'), importantDates with {Last Date,
\* 15/03/2026}, applicationFee with {General, 100 rupees}, ageLimit with
\* {General, 18, 27}, selectionProcess exactly Written Exam, Interview, and a
\* shortInfo stating the total of 5000 posts.
C14_ScenarioFields ==
    pc = "done" /\ rawText = WholeLine =>
        /\ output.kind = "record"
        /\ output.type = "job"
        /\ \/ includes(output.department, "Staff Selection Commission")
           \/ output.department = "Government of India"
        /\ holds(output.importantDates[1], [label |-> "Last Date", date |-> "15/03/2026"])
        /\ holds(output.applicationFee[1], [category |-> "General", fee |-> "₹100/-"])
        /\ holds(output.ageLimit[1], [category |-> "General", minAge |-> "18", maxAge |-> "27"])
        /\ output.selectionProcess[1] = <<"Written Exam", "Interview">>
        /\ includes(output.shortInfo, "5000")

C14_ScenarioParsed ==
    /\ pc = "done"
    /\ rawText = WholeLine
    /\ output.department = "Staff Selection Commission"
    /\ output.ageLimit[1] = <<[category |-> "General", minAge |-> "18", maxAge |-> "27"]>>
    /\ includes(output.shortInfo, "Total 5000 posts available.")

mutationRoutes == {"POST /api/posts", "PUT /api/posts/:id", "DELETE /api/posts/:id"}

isAdmin(c) == session[c].isAdmin = <<TRUE>>

\* the step is the receipt of a request that starts no query
answeredAtOnce == pending' = pending /\ hashedPassword' = hashedPassword

\* what C15 says of one step
adminOnlyStep ==
    /\ (posts' # posts) =>
           (\E c \in Clients :
               \/ pending[c] # Idle /\ pending'[c] = Idle
               \/ /\ request'.route = "DELETE /api/posts/:id"
                  /\ request'.client = c
                  /\ isAdmin(c))
    /\ \A c \in Clients :
           (pending[c] = Idle /\ pending'[c] # Idle) =>
               (isAdmin(c) /\ request'.client = c /\ request'.route \in mutationRoutes)
    /\ \A c \in Clients :
           (~isAdmin(c) /\ session'[c].isAdmin = <<TRUE>>) =>
               (/\ request' = [route |-> "POST /api/auth/login", client |-> c,
                               body |-> [username |-> String(ADMIN_USERNAME),
                                         password |-> String(ADMIN_PASSWORD)]]
                /\ response'.status = 200)
    /\ (request'.route = "POST /api/auth/logout") =>
           (session'[request'.client].isAdmin # <<TRUE>>)
    /\ (answeredAtOnce /\ request'.route \in mutationRoutes /\ ~isAdmin(request'.client)) =>
           (response' = Unauthorized /\ posts' = posts /\ nextId' = nextId)

\* C15: in every step of any sequence of logins, logouts and requests, the
\* posts table changes only by a create, update or delete request whose
\* session had isAdmin set when requireAuth let it through; isAdmin becomes
\* set only by a login whose username and password are the configured admin
\* credentials, and is not set after a logout; a create, update or delete
\* request of a session without isAdmin is answered 401 and changes nothing.
C15_OnlyAdminChangesPosts == [][adminOnlyStep]_vars

C15_GuestRefusedAdminStored ==
    /\ posts # {}
    /\ request.route = "DELETE /api/posts/:id"
    /\ ~isAdmin(request.client)
    /\ response = Unauthorized
    /\ \E c \in Clients : isAdmin(c)

\* the variants of items that occur in the text, ignoring case
variantsFound == {k \in 1..Len(items) : includes(toLowerCase(rawText), toLowerCase(items[k]))}

\* the first of them in the order of the list
firstVariant == CHOOSE k \in variantsFound : \A j \in variantsFound : k <= j

\* the text after the first occurrence of the first variant found
afterHeader ==
    SubSeq(rawText,
           indexOf(toLowerCase(rawText), toLowerCase(items[firstVariant])) + Len(items[firstVariant]),
           Len(rawText))

\* s is t from its first character that is not white space on, cut somewhere
\* in its first n characters
startOf(s, t, n) ==
    LET from == firstBad(In(Space), t, 1, Len(t))
    IN s = "" \/ (/\ from + Len(s) - 1 <= n
                   /\ from + Len(s) - 1 <= Len(t)
                   /\ SubSeq(t, from, from + Len(s) - 1) = s)

\* C16: extractSection uses the first header variant, in the order of the
\* list, that occurs in the text ignoring case, and returns text that follows
\* the first occurrence of that variant, whatever later variants occur
\* earlier in the text; the section is never longer than 1500 characters, and
\* is empty when no variant occurs.
C16_FirstVariantInListOrder ==
    pc = "done" =>
        /\ Len(output.section) <= 1500
        /\ variantsFound = {} => output.section = ""
        /\ variantsFound # {} => startOf(output.section, afterHeader, 1500)

C16_LaterVariantEarlierInText ==
    /\ pc = "done"
    /\ items = <<"Exam Fee", "Application Fee">>
    /\ rawText = "Application Fee" \o feeLines(1600) \o "exam fee"
    /\ output.section = ""

\* the first n characters of the text after the header, trimmed
cutAt(n) == trim(SubSeq(afterHeader, 1, minOf(n, Len(afterHeader))))

\* the section of a text with a header is the text after the header cut at
\* the marker when there is one, at noMarker characters when there is none and
\* at atStart characters when the marker starts right after the header
sectionCut(marker, noMarker, atStart) ==
    IF ~marker.ok THEN output.section = cutAt(noMarker)
    ELSE IF marker.index # 0 THEN output.section = cutAt(minOf(marker.index, 1500))
    ELSE output.section = cutAt(atStart)

\* no marker starts in the first n characters after the header
noMarkerBefore(marker, n) == ~marker.ok \/ marker.index >= n

\* C17 as stated: when the header is found and no next-section marker
\* follows it, the section is the text after the header up to 1500
\* characters, trimmed; when a marker is found the section ends at the
\* marker; and the section reaches 500 characters when no marker lies in the
\* first 500.
C17_SectionEndsAtMarkerOrCap ==
    (pc = "done" /\ variantsFound # {}) =>
        /\ sectionCut(match(afterHeader, nextSectionRe), 1500, 0)
        /\ noMarkerBefore(match(afterHeader, nextSectionRe), 500)
               => Len(output.section) >= Len(cutAt(500))

\* C17 amended: when the header is found and no next-section marker follows
\* it, the section is the text after the header up to 1000 characters,
\* trimmed; when a marker is found after at least one character the section
\* ends at the marker and at 1500 characters at most; when the marker starts
\* right after the header the section is the 500 characters after the header.
C17_SectionEndsAsCoded ==
    (pc = "done" /\ variantsFound # {}) => sectionCut(match(afterHeader, nextSectionRe), 1000, 500)

C17_LongSectionWithoutMarker ==
    /\ pc = "done"
    /\ rawText = "exam fee" \o feeLines(1100)
    /\ output.section = trim(feeLines(1000))

\* the section of rawText under the headers when it is not empty, else rawText
searched(headers) ==
    IF extractSection(rawText, headers) # "" THEN extractSection(rawText, headers) ELSE rawText

noHeader(headers) == \A k \in 1..Len(headers) : ~has(toLowerCase(headers[k]))

dateHeaders == <<"Important Dates", "IMPORTANT DATES", "Important Date">>
feeHeaders == <<"Application Fee", "APPLICATION FEE", "Exam Fee", "EXAM FEE">>
ageHeaders == <<"Age Limit", "AGE LIMIT", "Age Limits">>
vacancyHeaders == <<"Vacancy Details", "VACANCY DETAILS", "Post Wise Vacancy", "POST WISE VACANCY", "Total Post">>
selectionHeaders == <<"Selection Process", "SELECTION PROCESS", "Mode of Selection">>

\* extractSection is empty when no header occurs, and the four extractors
\* that read only the searched text report a line exactly when it lies there
readFromSearchedText ==
    /\ \A hs \in {dateHeaders, feeHeaders, ageHeaders, vacancyHeaders, selectionHeaders} :
           noHeader(hs) => extractSection(rawText, hs) = ""
    /\ (\E i \in 1..Len(output.importantDates[1]) : output.importantDates[1][i].date = "20/04/2026")
           <=> includes(searched(dateHeaders), "Exam Date: 20/04/2026")
    /\ (\E i \in 1..Len(output.applicationFee[1]) : output.applicationFee[1][i].fee = "₹250/-")
           <=> includes(searched(feeHeaders), "Female: Rs. 250")
    /\ (\E i \in 1..Len(output.ageLimit[1]) : output.ageLimit[1][i].maxAge = "30")
           <=> includes(searched(ageHeaders), "OBC: 21 to 30")
    /\ holds(output.selectionProcess[1], "Interview")
           <=> includes(searched(selectionHeaders), "Interview")
    /\ (\E i \in 1..Len(output.vacancyDetails[1]) : output.vacancyDetails[1][i].totalPost = "40")
           <=> includes(searched(vacancyHeaders), "Clerk: 40 Post")

totalReported == \E i \in 1..Len(output.vacancyDetails[1]) : output.vacancyDetails[1][i].totalPost = "900"

\* C18 as stated: extractSection returns the empty string when no header
\* variant occurs, and the date, fee, age-limit, vacancy and selection-process
\* extractors search the section when it is not empty and the whole text
\* otherwise, never both: what they report is what lies in that one text.
C18_SectionOrWholeText ==
    pc = "done" =>
        /\ output.kind = "record"
        /\ readFromSearchedText
        /\ totalReported <=> includes(searched(vacancyHeaders), "Total Vacancy: 900")

\* C18 amended: as stated for the date, fee, age-limit and selection-process
\* extractors and for the lines the vacancy extractor scans; the total of the
\* vacancy extractor's single fallback entry is read from the whole text also
\* when the section is not empty.
C18_SectionOrWholeTextButTotal ==
    pc = "done" =>
        /\ output.kind = "record"
        /\ readFromSearchedText
        /\ totalReported <=>
               \/ includes(searched(vacancyHeaders), "Total Vacancy: 900")
               \/ /\ has("total vacancy: 900")
                  /\ output.vacancyDetails[1] =
                         <<[postName |-> "Various Posts", totalPost |-> "900", eligibility |-> ""]>>

C18_TotalReadOutsideSection ==
    /\ pc = "done"
    /\ rawText = "Total Vacancy: 900\nVacancy Details\nFemale: Rs. 250\n"
    /\ searched(vacancyHeaders) = "Female: Rs. 250"
    /\ holds(output.applicationFee[1], [category |-> "Female", fee |-> "₹250/-"])
    /\ output.vacancyDetails[1] =
           <<[postName |-> "Various Posts", totalPost |-> "900", eligibility |-> ""]>>

\* the fixed templates that match the searched text, in the order of the list
templatesFound == SelectSeq(datePatterns, LAMBDA p : match(dateSearchText, p.regex).ok)

\* the lines of the searched text that start with the entry's label and a
\* colon and hold its date
linesWith(lines, entry) ==
    {k \in 1..Len(lines) : occursAt(lines[k], entry.label \o ":", 1)
                              /\ includes(lines[k], entry.date)}

linesOf(entry) == linesWith(split(dateSearchText, "\n"), entry)

firstLineOf(entry) == CHOOSE k \in linesOf(entry) : \A j \in linesOf(entry) : k <= j

\* the entries after the first n are read from lines, in the order of the
\* lines, each with a new label of 4 to 49 characters
genericAfter(dates, n) ==
    \A i \in (n + 1)..Len(dates) :
        /\ Len(dates[i].label) >= 4 /\ Len(dates[i].label) <= 49
        /\ \A j \in 1..(i - 1) : toLowerCase(dates[j].label) # toLowerCase(dates[i].label)
        /\ linesOf(dates[i]) # {}
        /\ \A j \in (n + 1)..(i - 1) : firstLineOf(dates[j]) < firstLineOf(dates[i])

\* C19: importantDates lists first one entry for each of the seven fixed
\* templates that matched, in the order Application Start, Last Date, Late
\* Fee Date, Exam Date, Admit Card, Result Date, Fee Payment Last Date, and
\* after them the entries read from 'label: value' lines in the order of the
\* lines; each of these has a label of 4 to 49 characters that differs,
\* ignoring case, from every label before it in the list.
C19_TemplatesThenLines ==
    pc = "done" =>
        /\ ~output.threw
        /\ Len(output.importantDates) >= Len(templatesFound)
        /\ \A i \in 1..Len(templatesFound) :
               output.importantDates[i].label = templatesFound[i].label
        /\ genericAfter(output.importantDates, Len(templatesFound))

C19_TemplatesBeforeLines ==
    /\ pc = "done"
    /\ rawText = "Counselling Round: 05 July 2026\nResult: 10/06/2026\nexam date: 20/04/2026\n"
    /\ output.importantDates = <<[label |-> "Exam Date", date |-> "20/04/2026"],
                                 [label |-> "Result Date", date |-> "10/06/2026"],
                                 [label |-> "Counselling Round", date |-> "05 July 2026"],
                                 [label |-> "Result", date |-> "10/06/2026"]>>

categoryKeywords == <<"general", "obc", "sc", "ews">>

\* 'General' is in the list before the category patterns are tried
listedBefore(k) ==
    k = 1 /\ (match(ageSearchText, singleAgeRe).ok \/ match(ageSearchText, rangeRe).ok)

noNumbers(t) == \A i \in 1..Len(t) : At(t, i) \notin Digit

\* the entry of a category whose keyword is in the searched text: both
\* numbers of the range m captured, or 18 and the maximum m captured, or the
\* maximum 35 when the text has no numbers
categoryEntry(ages, category, m) ==
    \E i \in 1..Len(ages) :
        /\ ages[i].category = category
        /\ (m.ok /\ m.g[1] # <<>>) => ages[i].minAge = m.g[1][1] /\ ages[i].maxAge = m.g[2][1]
        /\ (m.ok /\ m.g[1] = <<>>) => ages[i].minAge = "18" /\ ages[i].maxAge = m.g[3][1]
        /\ (~m.ok /\ noNumbers(ageSearchText)) => ages[i].maxAge = "35"

\* C20: for each of the categories General, OBC, SC/ST and EWS that is not
\* in the list yet and whose keyword is in the searched text, the list gets an
\* entry: with both numbers when the keyword is followed by a range, with
\* minAge '18' and the maximum when only a maximum is captured, and with
\* maxAge '35' when the keyword comes with no numbers.
C20_CategoryAgeDefaults ==
    pc = "done" =>
        \A k \in 1..Len(categoryPatterns) :
            (includes(toLowerCase(ageSearchText), categoryKeywords[k]) /\ ~listedBefore(k))
                => categoryEntry(output.ageLimit, categoryPatterns[k].category,
                                 match(ageSearchText, categoryPatterns[k].regex))

\* the entries of the list with category 'General'
generalEntries(ages) == {i \in 1..Len(ages) : ages[i].category = "General"}

\* the first entry of the list is 'General' with the two numbers m captured
seededFrom(ages, m) ==
    /\ Len(ages) >= 1
    /\ ages[1] = [category |-> "General", minAge |-> m.g[1][1], maxAge |-> m.g[2][1]]

\* the 'General' entry seeded from the minimum/maximum match, else from the range match
seeded(ages, single, range) ==
    /\ Cardinality(generalEntries(ages)) <= 1
    /\ single.ok => seededFrom(ages, single)
    /\ (~single.ok /\ range.ok) => seededFrom(ages, range)

\* C21: extractAgeLimit puts at most one 'General' entry in the list before
\* the category patterns run: the numbers of the combined minimum/maximum
\* pattern when it matches, otherwise those of the 'N to M years' range when
\* that matches; the range is not used when the combined pattern matched, and
\* the General category pattern neither replaces nor repeats a seeded entry.
C21_GeneralSeededOnce ==
    pc = "done" =>
        seeded(output.ageLimit, match(ageSearchText, singleAgeRe), match(ageSearchText, rangeRe))

C21_CombinedBeatsRangeAndCategory ==
    /\ pc = "done"
    /\ rawText = "General: 18 to 27\nAge 20 to 25 years\nMinimum Age: 21 Maximum Age: 30\n"
    /\ output.ageLimit = <<[category |-> "General", minAge |-> "21", maxAge |-> "30"]>>

\* the lines that give an entry: a name of more than 3 characters, then digits
postLines(lines) ==
    {k \in 1..Len(lines) : match(lines[k], postRe).ok
                              /\ Len(trim(match(lines[k], postRe).g[1][1])) > 3}

\* the entry synthesized from the total and the role found in the whole text
synthesized(total, role) ==
    [postName |-> IF role.ok THEN trim(role.g[1][1]) ELSE "Various Posts",
     totalPost |-> withoutCommas(total.g[1][1]),
     eligibility |-> ""]

fallbackExactly(vacancies, scanned, total, role) ==
    /\ (scanned = {} /\ total.ok) => vacancies = <<synthesized(total, role)>>
    /\ ~(scanned = {} /\ total.ok) => Len(vacancies) = Cardinality(scanned)
    /\ \A i \in 1..Len(vacancies) :
           /\ vacancies[i].eligibility = ""
           /\ \A j \in 1..Len(vacancies[i].totalPost) : At(vacancies[i].totalPost, j) \in Digit

\* C22: extractVacancyDetails adds the one synthesized entry exactly when no
\* line of the searched text gave an entry and the whole text states a total;
\* its totalPost is the total without separators and its postName the role
\* captured in the whole text or 'Various Posts'; every entry has an empty
\* eligibility and a totalPost in which every character is a digit.
C22_FallbackEntryExactly ==
    pc = "done" =>
        /\ output.kind = "record"
        /\ fallbackExactly(output.vacancyDetails[1],
                           postLines(split(searched(vacancyHeaders), "\n")),
                           match(rawText, totalRe), match(rawText, roleRe))

C22_TotalOutsideSectionSynthesized ==
    /\ pc = "done"
    /\ rawText = "Total Vacancies -\n2,000\nVacancy Details\nRecruitment for Junior Clerk\n"
    /\ searched(vacancyHeaders) = "Recruitment for Junior Clerk"
    /\ output.vacancyDetails[1] =
           <<[postName |-> "Junior Clerk", totalPost |-> "2000", eligibility |-> ""]>>

\* s is a substring of t when letter case is ignored
occursIn(t, s) ==
    \E i \in 1..(Len(t) - Len(s) + 1) :
        toLowerCase(SubSeq(t, i, i + Len(s) - 1)) = toLowerCase(s)

\* the stage names of the list that occur in the text, in the order of the list
stagesOf(t) == SelectSeq(stages, LAMBDA stage : occursIn(t, stage))

\* C23: selectionProcess holds the stage names of the fixed list that occur
\* in the searched text as substrings, letter case ignored: each once, in the
\* order of the list whatever their order in the text.
C23_StagesInListOrder ==
    pc = "done" =>
        /\ output.kind = "record"
        /\ output.selectionProcess[1] = stagesOf(searched(selectionHeaders))
        /\ \A i, j \in 1..Len(output.selectionProcess[1]) :
               output.selectionProcess[1][i] = output.selectionProcess[1][j] => i = j

C23_DocumentOrderIgnored ==
    /\ pc = "done"
    /\ rawText = "Interview\ncompetitive\nWRITTEN EXAM\n"
    /\ output.selectionProcess[1] = <<"Written Exam", "PET", "Interview">>

\* the lines among the first 10 that hold a title keyword in fewer than 150 characters
titleLines(lines) ==
    {k \in 1..minOf(Len(lines), 10) : match(lines[k], titleKeywordRe).ok /\ Len(lines[k]) < 150}

\* the title the three strategies give in their order
strategyTitle(lines, candidates, found) ==
    IF candidates # {}
    THEN trim(removeChars(trim(lines[CHOOSE k \in candidates : \A j \in candidates : k <= j]),
                          {"*", "#", "_"}))
    ELSE IF found.ok THEN trim(found.all)
    ELSE IF Len(lines) > 0 THEN SubSeq(lines[1], 1, minOf(100, Len(lines[1])))
    ELSE "Government Job Notification"

titleBy(lines) == strategyTitle(lines, titleLines(lines), match(rawText, titleRe))

\* C24: the title is the first of the first 10 non-blank lines that holds a
\* title keyword and has fewer than 150 characters, without its emphasis
\* characters; else the match of the recruitment/notification/online form
\* pattern in the whole text; else the first 100 characters of the first
\* non-blank line; it is 'Government Job Notification' exactly when the text
\* has no non-blank line, and it is never empty.
C24_TitleStrategiesInOrder ==
    pc = "done" =>
        /\ output.kind = "record"
        /\ output.title = titleBy(SelectSeq(split(rawText, "\n"), LAMBDA l : trim(l) # ""))
        /\ output.title # ""
        /\ output.title = "Government Job Notification"
               <=> \A i \in 1..Len(rawText) : At(rawText, i) \in Space

C24_EleventhLineFoundByPattern ==
    /\ pc = "done"
    /\ rawText = "\n   \n" \o TenLines \o "  **SSC Recruitment 2026**\n"
    /\ output.title = "Recruitment 2026"

\* the pattern's match captured a name: text that is not only white space
named(m) == m.ok /\ trim(m.g[1][1]) # ""

\* the trimmed capture, cut to 100 characters
nameOf(m) == SubSeq(trim(m.g[1][1]), 1, minOf(100, Len(trim(m.g[1][1]))))

departmentBy(labelled, bare) ==
    IF named(labelled) THEN nameOf(labelled)
    ELSE IF named(bare) THEN nameOf(bare)
    ELSE "Government of India"

\* C25: the department is never the empty string: it is the trimmed name
\* captured by the first of the two patterns that matches, the pattern with
\* the label before the pattern of the bare name, cut to 100 characters, and
\* 'Government of India' when neither pattern gives a name.
C25_DepartmentNeverEmpty ==
    pc = "done" =>
        /\ output.kind = "record"
        /\ output.department # ""
        /\ output.department = departmentBy(match(rawText, deptPatterns[1]),
                                            match(rawText, deptPatterns[2]))

\* s is a substring of t, letter for letter
occursExactly(t, s) == \E i \in 1..(Len(t) - Len(s) + 1) : SubSeq(t, i, i + Len(s) - 1) = s

\* the members of the state list that occur in the text
membersIn(t) == {k \in 1..Len(states) : occursExactly(t, states[k])}

reported(name) == IF name = "UP" THEN "Uttar Pradesh"
                  ELSE IF name = "MP" THEN "Madhya Pradesh" ELSE name

\* the state of the record: a value or none
stateBy(t, members) ==
    IF members # {} THEN <<reported(states[CHOOSE k \in members : \A j \in members : k <= j])>>
    ELSE IF occursIn(t, "all india") \/ occursIn(t, "central government") THEN <<"All India">>
    ELSE <<>>

\* C26: the state is the first member of the fixed list, in the order of the
\* list and not of the text, that occurs in the text, 'UP' being reported as
\* 'Uttar Pradesh' and 'MP' as 'Madhya Pradesh'; it is 'All India' only when
\* no member occurs and the text holds 'all india' or 'central government'
\* in any letter case; otherwise the record has no state.
C26_StateInListOrder ==
    pc = "done" =>
        /\ output.kind = "record"
        /\ output.state = stateBy(rawText, membersIn(rawText))

C26_ListOrderBeatsTextOrder ==
    /\ pc = "done"
    /\ rawText = "ALL INDIA\nBihar\nUPSC\n"
    /\ output.state = <<"Uttar Pradesh">>

\* the text names something: a name that is not empty stands in it
names(info, name) == name # "" /\ occursExactly(info, name)

\* the entries whose label holds 'Last'
lastEntries(dates) == {i \in 1..Len(dates) : occursExactly(dates[i].label, "Last")}

totalSentence(info, total) ==
    IF total > 0 THEN occursExactly(info, "Total " \o numberText(total) \o " posts available.")
    ELSE ~occursExactly(info, "posts available.")

lastDateSentence(info, dates, lasts) ==
    IF lasts # {}
    THEN occursExactly(info, "Last date to apply: "
                             \o dates[CHOOSE i \in lasts : \A j \in lasts : i <= j].date \o ".")
    ELSE ~occursExactly(info, "Last date to apply:")

\* C27: shortInfo names the department and the title; it holds the sentence
\* of the total of posts exactly when the summed total is greater than 0, and
\* the sentence of the last date exactly when importantDates has an entry
\* whose label holds 'Last', with the date of the first such entry.
C27_ShortInfoSentences ==
    pc = "done" =>
        /\ output.kind = "record"
        /\ names(output.shortInfo, output.department)
        /\ names(output.shortInfo, output.title)
        /\ totalSentence(output.shortInfo, sumOfPosts(output.vacancyDetails[1]))
        /\ lastDateSentence(output.shortInfo, output.importantDates[1],
                            lastEntries(output.importantDates[1]))

\* C28: whatever the interleaving of create-post requests that supply a
\* title and no slug, no two stored posts have the same slug, also when two
\* requests with the same title run at the same time.
C28_StoredSlugsUnique ==
    \A p, q \in posts : p.slug = q.slug => p = q

====
